---- MODULE Spec2Model ----
(***************************************************************************)
(* GW2 Commanders Watch: the single-writer session state machine           *)
(* (tui.model.Update) together with the background commands and producers  *)
(* that feed it (converter loop, archive, load, delete commands).          *)
(*                                                                         *)
(* Paths are sequences of path components: filepath.Join appends a         *)
(* component, filepath.Dir drops the last one, filepath.Base is the last   *)
(* one.  The empty path "" is <<>>.  A run name "<commander>_<timestamp>"  *)
(* is the component <<commander, ts>>; a report file name                  *)
(* "<stem>_detailed_wvw_kill.json" is the component <<stem, Suffix>>.      *)
(* A display name is <<stem>>.  Stems and timestamps are naturals, ordered *)
(* as the fixed-width digit strings they stand for.                        *)
(***************************************************************************)
EXTENDS Integers, Sequences, FiniteSets, TLC

\* ---------------------------------------------------------------- bounds
\* A behaviour is explored within the limits its initial state fixes in lim:
\* files (converted files the processor loop hands over), mints (run names
\* minted, each at a later second than the last), loads ("load all logs of
\* this run" commands issued) and pending (commands running at once).
MaxFiles == 1
MaxMints == 1
MaxLoads == 2
MaxPending == 3
\* the limits of the arrival scenarios, which run past the cap of a run
SeqFiles == 31
SeqMints == 2
BurstFiles == 31
ErrLoads == 1

\* ------------------------------------------------------ program constants
RunCap == 30    \* len(m.logList) >= 30 starts a new run
MaxCard == 8    \* m.selectedCard < 8

LogArchive == "Log_Archive"
FightLogTemp == "FightLogTemp"
Suffix == "_detailed_wvw_kill.json"
UnknownCommander == "UnknownCommander"
ViewingRunArchives == <<"Viewing Run Archives">>

\* ------------------------------------------------------------------ paths
Join(dir, name) == Append(dir, name)
Base(p) == p[Len(p)]
Dir(p) == SubSeq(p, 1, Len(p) - 1)
NoPath == <<>>

\* strings.TrimSuffix(baseName, ext) + "_detailed_wvw_kill.json" in FightLogTemp
TempJSONPath(stem) == Join(<<FightLogTemp>>, <<stem, Suffix>>)

\* strings.Replace(filepath.Base(fullPath), "_detailed_wvw_kill.json", "", 1)
DisplayName(fullPath) ==
    LET b == Base(fullPath)
    IN  IF Len(b) = 2 /\ b[2] = Suffix THEN <<b[1]>> ELSE b

\* ---------------------------------------------------------- parsed reports
\* The participants of the report converted from input `stem`: the report of
\* an odd stem carries a commander tag on its second player, an even one none.
Players(stem) ==
    IF stem % 2 = 1
    THEN << [Account |-> "Zed.5678", HasCommanderTag |-> FALSE],
            [Account |-> "Amy.1234", HasCommanderTag |-> TRUE] >>
    ELSE << [Account |-> "Zed.5678", HasCommanderTag |-> FALSE] >>

ParsedLog(stem) == [src |-> stem, Players |-> Players(stem)]
NoLog == [src |-> 0, Players |-> <<>>]

\* the report read from a path (temporary or archived): decided by its stem
ParseLog(path) == ParsedLog(Base(path)[1])

RECURSIVE FirstCommander(_)
FirstCommander(players) ==
    IF players = <<>> THEN UnknownCommander
    ELSE IF Head(players).HasCommanderTag THEN Head(players).Account
    ELSE FirstCommander(Tail(players))

\* ---------------------------------------------------------------- sorting
\* display names <<stem>> compare as their strings do
NameLess(a, b) == a[1] < b[1]

RECURSIVE InsertName(_, _)
InsertName(x, s) ==
    IF s = <<>> THEN <<x>>
    ELSE IF NameLess(x, Head(s)) THEN <<x>> \o s
    ELSE <<Head(s)>> \o InsertName(x, Tail(s))

RECURSIVE SortStrings(_)
SortStrings(s) ==
    IF s = <<>> THEN <<>> ELSE InsertName(Head(s), SortStrings(Tail(s)))

\* run names <<commander, ts>> compare as "<commander>_<timestamp>" strings
CommanderRank(c) == IF c = UnknownCommander THEN 2 ELSE 1
RunLess(a, b) ==
    \/ CommanderRank(a[1]) < CommanderRank(b[1])
    \/ a[1] = b[1] /\ a[2] < b[2]

RECURSIVE InsertRunDesc(_, _)
InsertRunDesc(x, s) ==
    IF s = <<>> THEN <<x>>
    ELSE IF RunLess(Head(s), x) THEN <<x>> \o s
    ELSE <<Head(s)>> \o InsertRunDesc(x, Tail(s))

RECURSIVE SortReverse(_)
SortReverse(s) ==
    IF s = <<>> THEN <<>> ELSE InsertRunDesc(Head(s), SortReverse(Tail(s)))

\* os.ReadDir: the entries of a directory, sorted by file name
RECURSIVE ReadDir(_)
ReadDir(S) ==
    IF S = {} THEN <<>>
    ELSE LET x == CHOOSE y \in S : \A z \in S : z = y \/ RunLess(y, z)
         IN  <<x>> \o ReadDir(S \ {x})

\* ----------------------------------------------------------- map helpers
MapPut(f, k, v) == [x \in DOMAIN f \cup {k} |-> IF x = k THEN v ELSE f[x]]
MapDel(f, k) == [x \in DOMAIN f \ {k} |-> f[x]]
MapGet(f, k, dflt) == IF k \in DOMAIN f THEN f[k] ELSE dflt
EmptyMap == [x \in {} |-> NoPath]

RECURSIVE IndexOf(_, _, _)
\* first i >= from with s[i] = x, or 0
IndexOf(s, x, from) ==
    IF from > Len(s) THEN 0
    ELSE IF s[from] = x THEN from
    ELSE IndexOf(s, x, from + 1)

\* Go's s[i] of a slice (indexed from 0)
At(s, i) == s[i + 1]

RemoveAt(s, i) == SubSeq(s, 1, i - 1) \o SubSeq(s, i + 1, Len(s))

\* ------------------------------------------------------------ the model m
\* tui.model: the fields Update reads or writes (theme, styles, config and
\* the window size only feed the renderer).
runsView == "runsView"
logsView == "logsView"
leftPanel == "leftPanel"
rightPanel == "rightPanel"
confirmDeleteRun == "confirmDeleteRun"
confirmDeleteLog == "confirmDeleteLog"
confirmAppUpdate == "confirmAppUpdate"
NoErr == "nil"
NoURL == "nil"

NewModel(initialRuns) ==
    [ logs |-> <<>>, runList |-> initialRuns, logList |-> <<>>,
      logFullPaths |-> <<>>,
      viewMode |-> runsView, currentRunPath |-> NoPath,
      currentRunName |-> ViewingRunArchives,
      selectedIndex |-> 0, focusedPanel |-> leftPanel, selectedCard |-> 0,
      status |-> <<"Select a run or wait for a new one.">>,
      err |-> NoErr, confirming |-> FALSE,
      confirmationType |-> confirmDeleteRun,
      itemToDelete |-> NoPath, updateURL |-> NoURL ]

\* a tea.Cmd the state machine returns: what is to be run asynchronously; of
\* a load, read is the batch of files found and set those not yet received
Cmd(kind, path, aux, log) ==
    [kind |-> kind, stage |-> "pending", path |-> path, aux |-> aux,
     log |-> log, read |-> {}, set |-> {}, id |-> 0]

loadRunsCmd == Cmd("loadRuns", NoPath, NoPath, NoLog)
loadLogsInRun(runPath) == Cmd("loadLogs", runPath, NoPath, NoLog)
archiveLogFile(tempJsonPath, finalRunPath, log) ==
    Cmd("archive", tempJsonPath, finalRunPath, log)
deleteRun(path) == Cmd("deleteRun", path, NoPath, NoLog)
deleteLogFiles(jsonPath) == Cmd("deleteLog", jsonPath, NoPath, NoLog)
openFile(path) == Cmd("openFile", path, NoPath, NoLog)
mkdirAll(path) == Cmd("mkdir", path, NoPath, NoLog)
Quit == Cmd("quit", NoPath, NoPath, NoLog)

\* what one call of Update returns: the next model and the commands; panic
\* marks a run-time panic (index out of range) inside the call; minted says
\* that the call read the clock to mint a run name.
Ret(m, cmds) == [m |-> m, cmd |-> cmds, panic |-> FALSE, minted |-> FALSE]
Minted(m, cmds) == [m |-> m, cmd |-> cmds, panic |-> FALSE, minted |-> TRUE]
Panic(m) == [m |-> m, cmd |-> <<>>, panic |-> TRUE, minted |-> FALSE]

\* a clearing that resets the cursors and keeps the logs
ClearCursorsOnly(m) == [m EXCEPT !.selectedIndex = 0, !.selectedCard = 0]

clearCurrentRun(m) ==
    [m EXCEPT !.logs = <<>>, !.logList = <<>>, !.logFullPaths = <<>>,
              !.selectedIndex = 0, !.selectedCard = 0]

getCurrentListSize(m) ==
    IF m.viewMode = runsView THEN Len(m.runList) + 1 ELSE Len(m.logList) + 1

\* Update, m.confirming: 'y' on a pending log deletion
ConfirmDeleteLog(m) ==
    LET item == m.itemToDelete
        fullPath == MapGet(m.logFullPaths, item, NoPath)
        i == IndexOf(m.logList, item, 1)
        list == IF i = 0 THEN m.logList ELSE RemoveAt(m.logList, i)
        sel == IF m.selectedIndex >= Len(list) + 1 THEN Len(list)
               ELSE m.selectedIndex
    IN  Ret([m EXCEPT !.logs = MapDel(@, fullPath),
                      !.logFullPaths = MapDel(@, item),
                      !.logList = list,
                      !.selectedIndex = sel,
                      !.status = <<"Deleted log", item>>,
                      !.confirming = FALSE, !.itemToDelete = NoPath,
                      !.updateURL = NoURL],
            <<deleteLogFiles(fullPath)>>)

ConfirmYes(m) ==
    IF m.confirmationType = confirmDeleteRun
    THEN Ret([m EXCEPT !.status = <<"Deleting run", Base(m.itemToDelete)>>,
                       !.confirming = FALSE, !.itemToDelete = NoPath,
                       !.updateURL = NoURL],
             <<deleteRun(m.itemToDelete)>>)
    ELSE IF m.confirmationType = confirmDeleteLog
    THEN ConfirmDeleteLog(m)
    ELSE Ret([m EXCEPT !.status = <<"Opening browser to download update...">>,
                       !.confirming = FALSE, !.itemToDelete = NoPath,
                       !.updateURL = NoURL],
             <<openFile(<<m.updateURL>>)>>)

\* a cancel that also moves the cursor back to the first row
ConfirmNoBack(m) ==
    Ret([m EXCEPT !.confirming = FALSE, !.itemToDelete = NoPath,
                  !.updateURL = NoURL, !.status = <<"Action cancelled.">>,
                  !.selectedIndex = 0],
        <<>>)

ConfirmNo(m) ==
    Ret([m EXCEPT !.confirming = FALSE, !.itemToDelete = NoPath,
                  !.updateURL = NoURL, !.status = <<"Action cancelled.">>],
        <<>>)

\* a confirming branch in which an update notice replaces the pending prompt
UpdateConfirmingReplaced(m, msg) ==
    IF msg.type = "KeyMsg" /\ msg.key = "y" THEN ConfirmYes(m)
    ELSE IF msg.type = "KeyMsg" /\ msg.key = "n" THEN ConfirmNo(m)
    ELSE IF msg.type = "UpdateAvailableMsg"
    THEN Ret([m EXCEPT !.confirmationType = confirmAppUpdate,
                       !.updateURL = msg.URL], <<>>)
    ELSE Ret(m, <<>>)

\* a confirming branch that still lets the quit key through
UpdateConfirmingQuits(m, msg) ==
    IF msg.type = "KeyMsg" /\ msg.key = "y" THEN ConfirmYes(m)
    ELSE IF msg.type = "KeyMsg" /\ msg.key = "n" THEN ConfirmNo(m)
    ELSE IF msg.type = "KeyMsg" /\ msg.key = "q" THEN Ret(m, <<Quit>>)
    ELSE Ret(m, <<>>)

\* Update, the branch taken while m.confirming: only y/Y and n/N/esc act,
\* every other message is returned from without being looked at
UpdateConfirming(m, msg) ==
    IF msg.type = "KeyMsg" /\ msg.key = "y" THEN ConfirmYes(m)
    ELSE IF msg.type = "KeyMsg" /\ msg.key = "n" THEN ConfirmNo(m)
    ELSE Ret(m, <<>>)

\* handleSelection (enter / space in the list panel); now is time.Now()
handleSelection(m, now) ==
    IF m.viewMode = runsView
    THEN IF m.selectedIndex = 0
         THEN LET runName == <<UnknownCommander, now>>
                  path == Join(<<LogArchive>>, runName)
              IN  Minted([clearCurrentRun([m EXCEPT !.currentRunPath = path,
                                                    !.currentRunName = runName,
                                                    !.viewMode = logsView])
                            EXCEPT !.status = <<"New run created. Waiting for logs.">>],
                         <<mkdirAll(path)>>)
         ELSE IF m.selectedIndex - 1 >= Len(m.runList) THEN Panic(m)
         ELSE LET runName == At(m.runList, m.selectedIndex - 1)
                  path == Join(<<LogArchive>>, runName)
              IN  Ret([clearCurrentRun([m EXCEPT !.currentRunPath = path,
                                                 !.currentRunName = runName,
                                                 !.viewMode = logsView])
                         EXCEPT !.status = <<"Loading logs for run", runName>>],
                      <<loadLogsInRun(path)>>)
    ELSE IF m.selectedIndex = 0
         THEN Ret([clearCurrentRun([m EXCEPT !.viewMode = runsView,
                                             !.currentRunPath = NoPath,
                                             !.currentRunName = ViewingRunArchives])
                     EXCEPT !.selectedIndex = 0],
                  <<loadRunsCmd>>)
         ELSE Ret([m EXCEPT !.selectedCard = 0], <<>>)

\* ctrl+d in the list panel: ask for a confirmation
\* a delete key that deletes at once, without asking
RequestDeleteNow(m) ==
    IF m.viewMode = runsView /\ m.selectedIndex > 0
    THEN IF m.selectedIndex - 1 >= Len(m.runList) THEN Panic(m)
         ELSE Ret(m, <<deleteRun(Join(<<LogArchive>>,
                                      At(m.runList, m.selectedIndex - 1)))>>)
    ELSE IF m.viewMode = logsView /\ m.selectedIndex > 0
    THEN IF m.selectedIndex - 1 >= Len(m.logList) THEN Panic(m)
         ELSE ConfirmDeleteLog([m EXCEPT !.itemToDelete =
                                   At(m.logList, m.selectedIndex - 1)])
    ELSE Ret(m, <<>>)

RequestDelete(m) ==
    IF m.viewMode = runsView /\ m.selectedIndex > 0
    THEN IF m.selectedIndex - 1 >= Len(m.runList) THEN Panic(m)
         ELSE LET runName == At(m.runList, m.selectedIndex - 1)
              IN  Ret([m EXCEPT !.confirming = TRUE,
                                !.confirmationType = confirmDeleteRun,
                                !.itemToDelete = Join(<<LogArchive>>, runName),
                                !.status = <<"Delete run? (y/N)", runName>>],
                      <<>>)
    ELSE IF m.viewMode = logsView /\ m.selectedIndex > 0
    THEN IF m.selectedIndex - 1 >= Len(m.logList) THEN Panic(m)
         ELSE LET logName == At(m.logList, m.selectedIndex - 1)
              IN  Ret([m EXCEPT !.confirming = TRUE,
                                !.confirmationType = confirmDeleteLog,
                                !.itemToDelete = logName,
                                !.status = <<"Delete log? (y/N)", logName>>],
                      <<>>)
    ELSE Ret(m, <<>>)

handleLeftPanelKeys(m, key, now) ==
    CASE key = "q" -> Ret(m, <<Quit>>)
      [] key = "up" ->
            Ret(IF m.selectedIndex > 0
                THEN [m EXCEPT !.selectedIndex = @ - 1] ELSE m, <<>>)
      [] key = "down" ->
            Ret(IF m.selectedIndex < getCurrentListSize(m) - 1
                THEN [m EXCEPT !.selectedIndex = @ + 1] ELSE m, <<>>)
      [] key = "right" -> Ret([m EXCEPT !.focusedPanel = rightPanel], <<>>)
      [] key = "ctrl+d" -> RequestDelete(m)
      [] key = "enter" -> handleSelection(m, now)
      [] OTHER -> Ret(m, <<>>)

\* strings.Replace(jsonFullPath, ".json", ".html", 1)
SuffixHtml == "_detailed_wvw_kill.html"
HtmlPath(jsonFullPath) ==
    IF jsonFullPath = NoPath THEN NoPath
    ELSE LET b == Base(jsonFullPath)
         IN  Join(Dir(jsonFullPath),
                  IF Len(b) = 2 /\ b[2] = Suffix THEN <<b[1], SuffixHtml>> ELSE b)

\* deleteLogFiles: the two files it calls os.Remove on
DeleteLogTargets(jsonPath) == {jsonPath, HtmlPath(jsonPath)}

handleRightPanelKeys(m, key) ==
    CASE key = "q" -> Ret(m, <<Quit>>)
      [] key = "left" -> Ret([m EXCEPT !.focusedPanel = leftPanel], <<>>)
      [] key = "up" ->
            Ret(IF m.selectedCard > 0
                THEN [m EXCEPT !.selectedCard = @ - 1] ELSE m, <<>>)
      [] key = "down" ->
            Ret(IF m.selectedCard < MaxCard
                THEN [m EXCEPT !.selectedCard = @ + 1] ELSE m, <<>>)
      [] key = "enter" ->
            IF m.viewMode = logsView /\ m.selectedIndex > 0
            THEN IF m.selectedIndex - 1 >= Len(m.logList) THEN Panic(m)
                 ELSE LET displayName == At(m.logList, m.selectedIndex - 1)
                          jsonFullPath == MapGet(m.logFullPaths, displayName, NoPath)
                      IN  Ret(m, <<openFile(HtmlPath(jsonFullPath))>>)
            ELSE Ret(m, <<>>)
      [] OTHER -> Ret(m, <<>>)

\* a load handler that lists a log under the whole name of its file
OnSingleLogParsedAsFile(m, msg) ==
    LET displayName == Base(msg.FullPath)
        list == Append(m.logList, displayName)
    IN  Ret([m EXCEPT !.logs = MapPut(@, msg.FullPath, msg.Log),
                      !.logList = list,
                      !.logFullPaths = MapPut(@, displayName, msg.FullPath),
                      !.status = <<"Loading... logs parsed.", Len(list)>>],
            <<>>)

\* Update, case SingleLogParsedMsg
OnSingleLogParsed(m, msg) ==
    LET displayName == DisplayName(msg.FullPath)
        list == Append(m.logList, displayName)
    IN  Ret([m EXCEPT !.logs = MapPut(@, msg.FullPath, msg.Log),
                      !.logList = list,
                      !.logFullPaths = MapPut(@, displayName, msg.FullPath),
                      !.status = <<"Loading... logs parsed.", Len(list)>>],
            <<>>)

\* Update, case AllLogsParsedMsg
OnAllLogsParsed(m) ==
    LET list == SortStrings(m.logList)
    IN  Ret([m EXCEPT !.logList = list,
                      !.status = <<"Loaded logs from run.", Len(list)>>,
                      !.selectedIndex = IF Len(list) > 0 THEN 1 ELSE 0],
            <<>>)

\* a boundary that is one log late
isNewRunAbove(m) ==
    m.viewMode = runsView \/ (m.viewMode = logsView /\ Len(m.logList) > RunCap)

\* the session-boundary heuristic of case TempLogProcessedMsg
isNewRun(m) ==
    m.viewMode = runsView \/ (m.viewMode = logsView /\ Len(m.logList) >= RunCap)

\* Update, case TempLogProcessedMsg; msg.parses is whether parser.ParseLog
\* of the temporary file succeeds
OnTempLogProcessed(m, msg, now) ==
    IF ~msg.parses THEN Ret([m EXCEPT !.err = "ParseFailure"], <<>>)
    ELSE LET parsedLog == ParseLog(msg.TempPath)
         IN  IF isNewRun(m)
             THEN LET runName == <<FirstCommander(parsedLog.Players), now>>
                      finalRunPath == Join(<<LogArchive>>, runName)
                  IN  Minted([clearCurrentRun([m EXCEPT !.viewMode = logsView])
                                EXCEPT !.currentRunPath = finalRunPath,
                                       !.currentRunName = runName,
                                       !.status = <<"New run started.">>],
                             <<archiveLogFile(msg.TempPath, finalRunPath, parsedLog)>>)
             ELSE Ret(m, <<archiveLogFile(msg.TempPath, m.currentRunPath, parsedLog)>>)

\* a handler that makes the run of the archived log the current run
OnLogfileArchivedAdoptsRun(m, msg) ==
    Ret([m EXCEPT !.currentRunPath = Dir(msg.FullPath)], <<>>)

\* a handler that takes the log of any run into the displayed one
OnLogfileArchivedAnyRun(m, msg) ==
    LET displayName == DisplayName(msg.FullPath)
        list == SortStrings(IF displayName \in DOMAIN m.logFullPaths
                            THEN m.logList
                            ELSE Append(m.logList, displayName))
    IN  Ret([m EXCEPT !.logs = MapPut(@, msg.FullPath, msg.Log),
                      !.logList = list,
                      !.logFullPaths = MapPut(@, displayName, msg.FullPath),
                      !.selectedIndex = IndexOf(list, displayName, 1),
                      !.selectedCard = 0,
                      !.status = <<"New log processed", displayName>>],
            <<>>)

\* Update, case LogfileArchivedMsg
OnLogfileArchived(m, msg) ==
    IF Dir(msg.FullPath) = m.currentRunPath
    THEN LET displayName == DisplayName(msg.FullPath)
             list == SortStrings(IF displayName \in DOMAIN m.logFullPaths
                                 THEN m.logList
                                 ELSE Append(m.logList, displayName))
             i == IndexOf(list, displayName, 1)
         IN  Ret([m EXCEPT !.logs = MapPut(@, msg.FullPath, msg.Log),
                           !.logList = list,
                           !.logFullPaths = MapPut(@, displayName, msg.FullPath),
                           !.selectedIndex = IF i > 0 THEN i ELSE @,
                           !.selectedCard = 0,
                           !.status = <<"New log processed", displayName>>],
                 <<>>)
    ELSE Ret(m, <<>>)

\* Update: one event in, the next model and the commands out
Update(m, msg, now) ==
    IF m.confirming THEN UpdateConfirming(m, msg)
    ELSE CASE msg.type = "UpdateAvailableMsg" ->
                Ret([m EXCEPT !.confirming = TRUE,
                              !.confirmationType = confirmAppUpdate,
                              !.updateURL = msg.URL,
                              !.status = <<"A new version is available! Open download page? (y/N)">>],
                    <<>>)
           [] msg.type = "RunsLoadedMsg" ->
                Ret([m EXCEPT !.runList = msg.Runs,
                              !.status = <<"Found archived runs.", Len(msg.Runs)>>],
                    <<>>)
           [] msg.type = "SingleLogParsedMsg" -> OnSingleLogParsed(m, msg)
           [] msg.type = "AllLogsParsedMsg" -> OnAllLogsParsed(m)
           [] msg.type = "TempLogProcessedMsg" -> OnTempLogProcessed(m, msg, now)
           [] msg.type = "LogfileArchivedMsg" -> OnLogfileArchived(m, msg)
           [] msg.type = "StatusMsg" -> Ret([m EXCEPT !.status = msg.text], <<>>)
           [] msg.type = "ErrMsg" -> Ret([m EXCEPT !.err = msg.Err], <<>>)
           [] msg.type = "KeyMsg" ->
                IF m.focusedPanel = leftPanel
                THEN handleLeftPanelKeys(m, msg.key, now)
                ELSE handleRightPanelKeys(m, msg.key)
           [] OTHER -> Ret(m, <<>>)

\* Update: the files the event loop itself reads from disk while it handles
\* msg (case TempLogProcessedMsg calls parser.ParseLog(msg.TempPath), that is
\* os.ReadFile and json.Unmarshal, before it returns)
FilesRead(m, msg) ==
    IF ~m.confirming /\ msg.type = "TempLogProcessedMsg"
    THEN {msg.TempPath}
    ELSE {}

\* renderStatusBar: the text of the status area, the stored error when there
\* is one and the status line otherwise
renderStatusBar(m) ==
    IF m.err # NoErr THEN <<"Error", m.err>> ELSE m.status

\* ------------------------------------------------------------------ state
VARIABLES
    m,          \* the tui.model the bubbletea event loop holds
    cmds,       \* the commands in their goroutines whose result the event
                \* loop has not received yet
    dirs,       \* the run directories that exist under Log_Archive
    archived,   \* the report files that exist in run directories
    temp,       \* the report files that exist in FightLogTemp
    routed,     \* history: converted stem -> the run directory resolved for it
                \* when its TempLogProcessedMsg was handled (NoPath: none)
    mints,      \* run names minted so far; the clock reads mints + 1
    loads,      \* load commands issued so far
    updSent,    \* the updater goroutine has sent its UpdateAvailableMsg
    panicked,   \* Update panicked: the program is gone
    lim,        \* the limits of this behaviour (never changes)
    call        \* the part of the program outside the event loop that is
                \* followed step by step, with the files it works on: one
                \* call of processor.ArchiveLogFiles, one call of
                \* processor.ProcessLog, or the watcher and its pollers

vars == <<m, cmds, dirs, archived, temp, routed, mints, loads, updSent, panicked, lim, call>>
sessionVars == <<m, cmds, dirs, archived, temp, routed, mints, loads, updSent, panicked, lim>>
diskVars == <<dirs, archived, temp>>

\* main: the model after construction (getInitialRuns of an empty archive),
\* with the command of model.Init running
Start ==
    /\ m = NewModel(<<>>)
    /\ cmds = {[loadRunsCmd EXCEPT !.stage = "done"]}
    /\ dirs = {}
    /\ archived = {}
    /\ temp = {}
    /\ routed = <<>>
    /\ mints = 0
    /\ loads = 0
    /\ updSent = FALSE
    /\ panicked = FALSE

Limits(files, mints_, loads_, pending) ==
    [files |-> files, mints |-> mints_, loads |-> loads_, pending |-> pending]

\* no call of ArchiveLogFiles is followed step by step
NoCall == [pc |-> "idle"]

Init ==
    /\ Start
    /\ lim = Limits(MaxFiles, MaxMints, MaxLoads, MaxPending)
    /\ call = NoCall

\* ------------------------------------------------------ command goroutines
\* A command does its work on the file system as soon as its goroutine is
\* started by the event loop; its result then waits to be received.  Only
\* the archive command, which first waits for its files, moves later.

\* loadRuns: the names of the run directories found in Log_Archive
RunNames(ds) == {Base(d) : d \in ds}

\* the run directories after command c was started
DirsAfter(c, ds) ==
    CASE c.kind = "deleteRun" -> ds \ {c.path}      \* os.RemoveAll
      [] c.kind = "mkdir" -> ds \cup {c.path}       \* os.MkdirAll
      [] OTHER -> ds

\* the archived report files after command c was started
FilesAfter(c, fs) ==
    CASE c.kind = "deleteRun" -> {p \in fs : Dir(p) # c.path}
      [] c.kind = "deleteLog" -> fs \ DeleteLogTargets(c.path)   \* os.Remove
      [] OTHER -> fs

\* the results that wait to be received once c was started, n loads before it
Started(c, ds, fs, n) ==
    CASE c.kind = "loadRuns" ->
            {[c EXCEPT !.stage = "done", !.set = RunNames(ds)]}
      [] c.kind = "deleteRun" ->
            {[loadRunsCmd EXCEPT !.stage = "done", !.path = c.path,
                                 !.set = RunNames(DirsAfter(c, ds))]}
      [] c.kind = "loadLogs" ->
            {IF c.path \in ds
             THEN [c EXCEPT !.stage = "read", !.id = n + 1,
                            !.read = {p \in fs : Dir(p) = c.path},
                            !.set = {p \in fs : Dir(p) = c.path}]
             ELSE [c EXCEPT !.stage = "failed", !.id = n + 1]}
      [] c.kind \in {"archive", "openFile"} -> {c}
      [] OTHER -> {}

IssuesLoad(cmdSeq) == cmdSeq # <<>> /\ cmdSeq[1].kind = "loadLogs"

\* the event loop receives msg and calls Update; rest is what else is still
\* running; the command Update returns is started
Handle(msg, rest) ==
    LET r == Update(m, msg, mints + 1)
    IN  /\ ~panicked
        /\ r.minted => mints < lim.mints
        /\ IssuesLoad(r.cmd) => loads < lim.loads
        /\ m' = r.m
        /\ panicked' = r.panic
        /\ mints' = IF r.minted THEN mints + 1 ELSE mints
        /\ loads' = IF IssuesLoad(r.cmd) THEN loads + 1 ELSE loads
        /\ dirs' = IF r.cmd = <<>> THEN dirs ELSE DirsAfter(r.cmd[1], dirs)
        /\ archived' = IF r.cmd = <<>> THEN archived
                       ELSE FilesAfter(r.cmd[1], archived)
        /\ cmds' = IF r.cmd = <<>> THEN rest
                   ELSE rest \cup Started(r.cmd[1], dirs, archived, loads)
        /\ Cardinality(cmds') <= lim.pending
        /\ lim' = lim

Deliver(msg, rest) == Handle(msg, rest) /\ call' = call

\* ------------------------------------------------------- producers, input
Keys == {"q", "up", "down", "left", "right", "ctrl+d", "enter", "y", "n", "other"}

\* the keys the report dashboard acts on: the card cursor and "open report"
Dashboard(k) ==
    ~m.confirming /\ m.focusedPanel = rightPanel /\ k \in {"up", "down", "enter"}

\* a key press (w/k as up, s/j as down, d/l as right, a/h as left, space as
\* enter, Y as y, N and esc as n, ctrl+c as q)
KeyMsg(k) == [type |-> "KeyMsg", key |-> k]

KeyPress ==
    \E k \in Keys :
        /\ ~Dashboard(k)
        /\ Deliver(KeyMsg(k), cmds)
        /\ UNCHANGED <<temp, routed, updSent>>

\* up / down / enter in the report dashboard
CardKey ==
    \E k \in Keys :
        /\ Dashboard(k)
        /\ Deliver(KeyMsg(k), cmds)
        /\ UNCHANGED <<temp, routed, updSent>>

\* main, log processor goroutine: ProcessLog succeeded for a new input and
\* the TempLogProcessedMsg is received
TempLogProcessed(stem, parses) ==
    [type |-> "TempLogProcessedMsg", TempPath |-> TempJSONPath(stem),
     parses |-> parses]

FileReadyOf(stem, parses) ==
    LET msg == TempLogProcessed(stem, parses)
        r == Update(m, msg, mints + 1)
    IN  /\ Deliver(msg, cmds)
        /\ routed' = MapPut(routed, stem,
                            IF r.cmd = <<>> THEN NoPath ELSE r.cmd[1].aux)
        /\ temp' = temp \cup {TempJSONPath(stem)}
        /\ UNCHANGED updSent

FileReady ==
    \E stem \in (1..lim.files) \ DOMAIN routed, parses \in BOOLEAN :
        FileReadyOf(stem, parses)

\* main, updater goroutine
UpdateAvailable ==
    /\ ~updSent
    /\ updSent' = TRUE
    /\ Deliver([type |-> "UpdateAvailableMsg", URL |-> "https://release"], cmds)
    /\ UNCHANGED <<temp, routed>>

\* main: a status line of the CLI installer or of the processor loop
ExternalStatus ==
    /\ Deliver([type |-> "StatusMsg", text |-> <<"Processing">>], cmds)
    /\ UNCHANGED <<temp, routed, updSent>>

\* main: a failure of the watcher or of ProcessLog
ExternalErr ==
    /\ Deliver([type |-> "ErrMsg", Err |-> "ConvertFailed"], cmds)
    /\ UNCHANGED <<temp, routed, updSent>>

\* ------------------------------------------------------ results received
Running(kind, stage) == {c \in cmds : c.kind = kind /\ c.stage = stage}

\* loadRuns: its RunsLoadedMsg (sorted newest first) is received
DeliverRunsLoaded ==
    \E c \in Running("loadRuns", "done") :
        /\ Deliver([type |-> "RunsLoadedMsg", Runs |-> SortReverse(ReadDir(c.set))],
                   cmds \ {c})
        /\ UNCHANGED <<temp, routed, updSent>>

\* loadLogsInRun: os.ReadDir failed, the ErrMsg is received
LoadLogsFails ==
    \E c \in Running("loadLogs", "failed") :
        /\ Deliver([type |-> "ErrMsg", Err |-> "ReadDirFailed"], cmds \ {c})
        /\ UNCHANGED <<temp, routed, updSent>>

\* parseSingleLog of one entry of the batch: its message is received
DeliverSingleLogParsed ==
    \E c \in Running("loadLogs", "read") : \E p \in c.set :
        /\ Deliver([type |-> "SingleLogParsedMsg", Log |-> ParseLog(p), FullPath |-> p],
                   (cmds \ {c}) \cup {[c EXCEPT !.set = @ \ {p}]})
        /\ UNCHANGED <<temp, routed, updSent>>

\* parseSingleLog of an entry whose file is gone: the ErrMsg is received
SingleLogParseFails ==
    \E c \in Running("loadLogs", "read") : \E p \in c.set :
        /\ p \notin archived
        /\ Deliver([type |-> "ErrMsg", Err |-> "ParseFailure"],
                   (cmds \ {c}) \cup {[c EXCEPT !.set = @ \ {p}]})
        /\ UNCHANGED <<temp, routed, updSent>>

\* tea.Sequence: AllLogsParsedMsg follows once the whole batch was received
DeliverAllLogsParsed ==
    \E c \in Running("loadLogs", "read") :
        /\ c.set = {}
        /\ Deliver([type |-> "AllLogsParsedMsg"], cmds \ {c})
        /\ UNCHANGED <<temp, routed, updSent>>

\* a destination read from the model when the move happens
ArchivedPathNow(c) == Join(m.currentRunPath, Base(c.path))

\* the destination the command captured when it was created
ArchivedPath(c) == Join(c.aux, Base(c.path))

\* an archive task that puts the log into the displayed list by itself
ArchiveMoveListsLog(c) ==
    /\ ~panicked
    /\ dirs' = dirs \cup {c.aux}
    /\ archived' = archived \cup {Join(c.aux, Base(c.path))}
    /\ temp' = temp \ {c.path}
    /\ cmds' = (cmds \ {c}) \cup {[c EXCEPT !.stage = "moved"]}
    /\ m' = [m EXCEPT !.logList = Append(@, DisplayName(Join(c.aux, Base(c.path))))]
    /\ UNCHANGED <<routed, mints, loads, updSent, panicked, lim, call>>

\* archiveLogFile, processor.ArchiveLogFiles: MkdirAll and the move of the JSON
ArchiveMoveOf(c) ==
    /\ ~panicked
    /\ dirs' = dirs \cup {c.aux}
    /\ archived' = archived \cup {ArchivedPath(c)}
    /\ temp' = temp \ {c.path}
    /\ cmds' = (cmds \ {c}) \cup {[c EXCEPT !.stage = "moved"]}
    /\ UNCHANGED <<m, routed, mints, loads, updSent, panicked, lim, call>>

ArchiveMove == \E c \in Running("archive", "pending") : ArchiveMoveOf(c)

\* archiveLogFile: ArchiveLogFiles fails, the ErrMsg is received
ArchiveFails ==
    \E c \in Running("archive", "pending") :
        /\ Deliver([type |-> "ErrMsg", Err |-> "MoveFailed"], cmds \ {c})
        /\ UNCHANGED <<temp, routed, updSent>>

\* archiveLogFile: the LogfileArchivedMsg is received
LogfileArchived(c) ==
    [type |-> "LogfileArchivedMsg", Log |-> c.log, FullPath |-> ArchivedPath(c)]

DeliverArchivedOf(c) ==
    /\ Deliver(LogfileArchived(c), cmds \ {c})
    /\ UNCHANGED <<temp, routed, updSent>>

DeliverArchived == \E c \in Running("archive", "moved") : DeliverArchivedOf(c)

\* openFile: the StatusMsg or the ErrMsg is received
DeliverOpened ==
    \E c \in Running("openFile", "pending") : \E ok \in BOOLEAN :
        /\ Deliver(IF ok THEN [type |-> "StatusMsg", text |-> <<"Opening report", c.path>>]
                   ELSE [type |-> "ErrMsg", Err |-> "OpenFailed"], cmds \ {c})
        /\ UNCHANGED <<temp, routed, updSent>>

\* ---------------------------------------------------------- specifications
\* The session: arrivals, archiving, navigation, loading, deletion and its
\* confirmation, with every interleaving of the results in flight.
Next ==
    \/ KeyPress
    \/ FileReady
    \/ DeliverRunsLoaded
    \/ LoadLogsFails
    \/ DeliverSingleLogParsed
    \/ SingleLogParseFails
    \/ DeliverAllLogsParsed
    \/ ArchiveMove
    \/ ArchiveFails
    \/ DeliverArchived

Spec == Init /\ [][Next]_vars

\* The session together with the report dashboard, the update prompt and the
\* status and error lines of the other goroutines.
NextAll ==
    \/ Next
    \/ CardKey
    \/ UpdateAvailable
    \/ ExternalStatus
    \/ ExternalErr
    \/ DeliverOpened

SpecAll == Init /\ [][NextAll]_vars

\* The arrival scenario: files are converted one after the other, each one's
\* LogfileArchivedMsg is received before the next TempLogProcessedMsg, and
\* the user only moves the list cursor.
InitSeq ==
    /\ Start
    /\ lim = Limits(SeqFiles, SeqMints, 0, SeqFiles + 1)
    /\ call = NoCall

NextStem == Cardinality(DOMAIN routed) + 1

SeqFileReady ==
    /\ NextStem <= lim.files
    /\ Running("archive", "pending") \cup Running("archive", "moved") = {}
    /\ FileReadyOf(NextStem, TRUE)

CursorKey ==
    \E k \in {"up", "down"} :
        /\ Deliver(KeyMsg(k), cmds)
        /\ UNCHANGED <<temp, routed, updSent>>

NextSeq ==
    \/ SeqFileReady
    \/ ArchiveMove
    \/ DeliverArchived
    \/ DeliverRunsLoaded
    \/ CursorKey

SpecSeq == InitSeq /\ [][NextSeq]_vars

\* The burst scenario: files are converted one after the other while the
\* archive commands of earlier ones are still running; the archive commands
\* finish in the order they were started.
InitBurst ==
    /\ Start
    /\ lim = Limits(BurstFiles, SeqMints, 0, BurstFiles + 1)
    /\ call = NoCall

Oldest(c, S) == c \in S /\ \A d \in S : Base(c.path)[1] <= Base(d.path)[1]

BurstFileReady ==
    /\ NextStem <= lim.files
    /\ FileReadyOf(NextStem, TRUE)

ArchiveMoveInOrder ==
    \E c \in cmds : Oldest(c, Running("archive", "pending")) /\ ArchiveMoveOf(c)

DeliverArchivedInOrder ==
    \E c \in cmds : Oldest(c, Running("archive", "moved")) /\ DeliverArchivedOf(c)

NextBurst ==
    \/ BurstFileReady
    \/ ArchiveMoveInOrder
    \/ DeliverArchivedInOrder
    \/ DeliverRunsLoaded

SpecBurst == InitBurst /\ [][NextBurst]_vars

\* The session with commands that fail: the os.MkdirAll of a new run, the
\* os.Remove calls of deleteLogFiles and the os.RemoveAll of deleteRun.
\* What the goroutine of a failed command returns to the event loop:
\* deleteRun and loadLogsInRun wrap the error in an ErrMsg, the command of
\* "New Run" returns the error value of os.MkdirAll itself, deleteLogFiles
\* prints a warning and returns nil, which the event loop discards.
FailureMsg(c) ==
    CASE c.kind = "deleteRun" -> [type |-> "ErrMsg", Err |-> "RemoveAllFailed"]
      [] c.kind = "loadLogs" -> [type |-> "ErrMsg", Err |-> "ReadDirFailed"]
      [] c.kind = "archive" -> [type |-> "ErrMsg", Err |-> "MoveFailed"]
      [] c.kind = "openFile" -> [type |-> "ErrMsg", Err |-> "OpenFailed"]
      [] c.kind = "mkdir" -> [type |-> "PathError", Err |-> "MkdirAllFailed"]
      [] OTHER -> [type |-> "nil"]

MayFail == {"mkdir", "deleteLog", "deleteRun"}

\* a key whose command fails on the file system: nothing changes on disk
KeyCommandFails ==
    \E k \in Keys :
        LET r == Update(m, KeyMsg(k), mints + 1)
        IN  /\ ~panicked
            /\ r.cmd # <<>>
            /\ r.cmd[1].kind \in MayFail
            /\ r.minted => mints < lim.mints
            /\ m' = r.m
            /\ mints' = IF r.minted THEN mints + 1 ELSE mints
            /\ cmds' = cmds \cup {[r.cmd[1] EXCEPT !.stage = "failed"]}
            /\ Cardinality(cmds') <= lim.pending
            /\ UNCHANGED <<dirs, archived, temp, routed, loads, updSent,
                           panicked, lim, call>>

\* the result of a failed command reaches the event loop
DeliverFailure ==
    \E c \in cmds :
        /\ c.stage = "failed" /\ c.kind \in MayFail
        /\ IF FailureMsg(c).type = "nil"
           THEN /\ ~panicked
                /\ cmds' = cmds \ {c}
                /\ UNCHANGED <<m, dirs, archived, mints, loads, panicked, lim, call>>
           ELSE Deliver(FailureMsg(c), cmds \ {c})
        /\ UNCHANGED <<temp, routed, updSent>>

NextErr ==
    \/ Next
    \/ KeyCommandFails
    \/ DeliverFailure

InitErr ==
    /\ Start
    /\ lim = Limits(MaxFiles, MaxMints, ErrLoads, MaxPending)
    /\ call = NoCall

SpecErr == InitErr /\ [][NextErr]_vars

\* ------------------------------------------------------ update prompt
\* The session with the updater goroutine: its UpdateAvailableMsg may arrive
\* at any time, once, and the browser is opened when the prompt is accepted.
NextPrompt ==
    \/ Next
    \/ UpdateAvailable
    \/ DeliverOpened

SpecPrompt == InitErr /\ [][NextPrompt]_vars

\* ------------------------------------------------- main.getInitialRuns
\* The program starts on an archive that earlier sessions have filled: up to
\* EarlierRuns run directories, named before the clock of this session.
EarlierRuns == 2
RunLoads == 1
RunPending == 2

EarlierDirs ==
    {Join(<<LogArchive>>, <<UnknownCommander, t - EarlierRuns>>) : t \in 1..EarlierRuns}

RECURSIVE InsertRunAsc(_, _)
InsertRunAsc(x, s) ==
    IF s = <<>> THEN <<x>>
    ELSE IF RunLess(x, Head(s)) THEN <<x>> \o s
    ELSE <<Head(s)>> \o InsertRunAsc(x, Tail(s))

\* sort.Strings(runs)
RECURSIVE SortRuns(_)
SortRuns(s) ==
    IF s = <<>> THEN <<>> ELSE InsertRunAsc(Head(s), SortRuns(Tail(s)))

\* getInitialRuns: os.ReadDir(Log_Archive), the directories, sort.Strings
getInitialRuns(ds) == SortRuns(ReadDir(RunNames(ds)))

\* main: tui.NewModel(cfg, initialRuns) and the loadRuns of model.Init
InitRuns ==
    /\ \E ds \in SUBSET EarlierDirs :
        /\ dirs = ds
        /\ m = NewModel(getInitialRuns(ds))
        /\ cmds = {[loadRunsCmd EXCEPT !.stage = "done", !.set = RunNames(ds)]}
    /\ archived = {}
    /\ temp = {}
    /\ routed = <<>>
    /\ mints = 0
    /\ loads = 0
    /\ updSent = FALSE
    /\ panicked = FALSE
    /\ lim = Limits(0, MaxMints, RunLoads, RunPending)
    /\ call = NoCall

\* the session while no log arrives: browsing, opening and deleting runs
NextRuns ==
    \/ KeyPress
    \/ DeliverRunsLoaded
    \/ LoadLogsFails
    \/ DeliverAllLogsParsed

SpecRuns == InitRuns /\ [][NextRuns]_vars

\* --------------------------------------------- processor.ArchiveLogFiles
\* One call of ArchiveLogFiles(tempJsonPath, finalRunPath), one system call
\* at a time.  A file is <<>> when it does not exist and <<n>> when it
\* exists with n bytes; src are the two reports in FightLogTemp, dest their
\* places in the run directory.  Every system call may fail.
Retries == 3
MaxSize == 2

Absent == <<>>
File(n) == <<n>>
Size(f) == f[1]

NewCall(json, html) ==
    [pc |-> "mkdir", phase |-> "json", i |-> 0,
     src |-> [json |-> json, html |-> html],
     dest |-> [json |-> Absent, html |-> Absent],
     pre |-> [json |-> json, html |-> html],
     srcInfo |-> 0, destInfo |-> 0, copied |-> FALSE, verified |-> FALSE,
     moved |-> [json |-> "none", html |-> "none"],
     waited |-> "none", ret |-> "none"]

\* ProcessLog has waited for the JSON report; the HTML report may be missing
InitArchive ==
    /\ Start
    /\ lim = Limits(0, 0, 0, 0)
    /\ \E n \in 1..MaxSize :
       \E html \in {Absent} \cup {File(k) : k \in 1..MaxSize} :
           call = NewCall(File(n), html)

Step(next) == call' = next /\ UNCHANGED sessionVars

\* a failed step that repeats the attempt without counting it
RetryUncounted(c) == [c EXCEPT !.pc = "loop"]

\* moveFileWithRetry: lastErr = ...; time.Sleep; continue
Retry(c) == [c EXCEPT !.i = @ + 1, !.pc = "loop"]

\* os.MkdirAll(finalRunPath, 0755)
MkdirAll ==
    /\ call.pc = "mkdir"
    /\ \E ok \in BOOLEAN :
        Step(IF ok THEN [call EXCEPT !.pc = "loop"]
             ELSE [call EXCEPT !.pc = "returned", !.ret = "error"])

\* moveFileWithRetry: for i := 0; i < retries; i++, and the return after it
LoopTest ==
    /\ call.pc = "loop"
    /\ Step(IF call.i < Retries
            THEN [call EXCEPT !.pc = "open", !.copied = FALSE, !.verified = FALSE]
            ELSE [call EXCEPT !.pc = "moved", !.moved[call.phase] = "failed"])

\* os.Open(src)
OpenSource ==
    /\ call.pc = "open"
    /\ \E ok \in BOOLEAN :
        Step(IF ok /\ call.src[call.phase] # Absent
             THEN [call EXCEPT !.pc = "create"]
             ELSE Retry(call))

\* os.Create(dest): the destination exists and is empty
CreateDest ==
    /\ call.pc = "create"
    /\ \E ok \in BOOLEAN :
        Step(IF ok
             THEN [call EXCEPT !.pc = "copy", !.dest[call.phase] = File(0)]
             ELSE Retry(call))

\* destFile.ReadFrom(sourceFile) and the two Close calls, whose errors are
\* not looked at: n bytes arrive, with or without an error being returned
CopyData ==
    /\ call.pc = "copy"
    /\ \E n \in 0..Size(call.src[call.phase]), err \in BOOLEAN :
        LET c == [call EXCEPT !.dest[call.phase] = File(n)]
        IN  Step(IF err THEN Retry(c)
                 ELSE [c EXCEPT !.pc = "statSrc", !.copied = TRUE])

\* os.Stat(src)
StatSource ==
    /\ call.pc = "statSrc"
    /\ \E ok \in BOOLEAN :
        Step(IF ok /\ call.src[call.phase] # Absent
             THEN [call EXCEPT !.pc = "statDest",
                               !.srcInfo = Size(call.src[call.phase])]
             ELSE Retry(call))

\* os.Stat(dest)
StatDest ==
    /\ call.pc = "statDest"
    /\ \E ok \in BOOLEAN :
        Step(IF ok /\ call.dest[call.phase] # Absent
             THEN [call EXCEPT !.pc = "compare",
                               !.destInfo = Size(call.dest[call.phase])]
             ELSE Retry(call))

\* a comparison that lets every copy pass
SizesAccepted(srcSize, destSize) == TRUE

\* srcInfo.Size() != destInfo.Size() is a failed attempt
SizesMatch(srcSize, destSize) == srcSize = destSize

CompareSizes ==
    /\ call.pc = "compare"
    /\ Step(IF SizesMatch(call.srcInfo, call.destInfo)
            THEN [call EXCEPT !.pc = "remove", !.verified = (call.srcInfo = call.destInfo)]
            ELSE Retry(call))

\* a removal that reports an error after the file is gone
GoneAnyway(ok, file) == Absent

\* os.Remove(src): the file after the call
AfterRemove(ok, file) == IF ok THEN Absent ELSE file

RemoveSource ==
    /\ call.pc = "remove"
    /\ \E ok \in BOOLEAN :
        LET c == [call EXCEPT !.src[call.phase] = AfterRemove(ok, @)]
        IN  Step(IF ok THEN [c EXCEPT !.pc = "moved", !.moved[call.phase] = "ok"]
                 ELSE Retry(c))

\* an archive that fails when the HTML report could not be archived
FailWithoutHtml(outcome) == IF outcome = "ok" THEN "archived" ELSE "error"

\* ArchiveLogFiles: a missing or unmovable HTML report is a warning only
ReturnAfterHtml(outcome) == "archived"

\* ArchiveLogFiles, after each of its two moveFileWithRetry calls
AfterMove ==
    /\ call.pc = "moved"
    /\ Step(IF call.phase = "json"
            THEN IF call.moved.json = "ok" THEN [call EXCEPT !.pc = "wait"]
                 ELSE [call EXCEPT !.pc = "returned", !.ret = "error"]
            ELSE [call EXCEPT !.pc = "returned",
                              !.ret = ReturnAfterHtml(call.moved.html)])

\* waitForFile(tempHTMLPath): found and unlocked, or one of its time-outs
WaitForHtml ==
    /\ call.pc = "wait"
    /\ \E ok \in BOOLEAN :
        Step(IF ok /\ call.src.html # Absent
             THEN [call EXCEPT !.waited = "ok", !.phase = "html", !.i = 0,
                               !.pc = "loop"]
             ELSE [call EXCEPT !.waited = "timeout", !.pc = "returned",
                               !.ret = ReturnAfterHtml("timeout")])

NextArchive ==
    \/ MkdirAll
    \/ LoopTest
    \/ OpenSource
    \/ CreateDest
    \/ CopyData
    \/ StatSource
    \/ StatDest
    \/ CompareSizes
    \/ RemoveSource
    \/ AfterMove
    \/ WaitForHtml

SpecArchive == InitArchive /\ [][NextArchive]_vars

\* The goroutine of the call is scheduled until it returns: every system
\* call and every time.Sleep of the call comes back.
SpecArchiveFair == SpecArchive /\ WF_vars(NextArchive)

\* ------------------------------------------------- processor.ProcessLog
\* One call of ProcessLog(logPath), one step at a time, with the JSON report
\* the converter writes into FightLogTemp: absent, present but still held by
\* its writer ("locked"), or present and released ("ready").  Time is counted
\* in ticks of the 250 ms ticker; Ticks of them make one time-out of
\* waitForFile (240 in the program).
ConvLogs == 2
Ticks == 3

ErrMkdir == "failed to create directory"
ErrRuntime == "required .NET runtime not found"
ErrExecute == "failed to execute Elite Insights CLI"
ErrExistTimeout == "timed out waiting for file to exist"
ErrStat == "error checking file existence"
ErrUnlockTimeout == "timed out waiting for file to unlock"

NewConvert(stem) ==
    [pc |-> "mkdir", logPath |-> stem, signature |-> FALSE, exit |-> "none",
     file |-> "absent", elapsed |-> 0, waited |-> FALSE,
     ret |-> "none", path |-> NoPath]

InitConvert ==
    /\ Start
    /\ lim = Limits(0, 0, 0, 0)
    /\ \E stem \in 1..ConvLogs : call = NewConvert(stem)

\* ProcessLog: os.MkdirAll(FightLogTemp, 0755)
ConvMkdirAll ==
    /\ call.pc = "mkdir"
    /\ \E ok \in BOOLEAN :
        Step(IF ok THEN [call EXCEPT !.pc = "exec"]
             ELSE [call EXCEPT !.pc = "returned", !.ret = ErrMkdir])

\* ProcessLog: cmd.CombinedOutput(): the output holds the line of the missing
\* runtime or not, and err is nil (exit status 0), an exit error, or the
\* process could not be started and wrote nothing
CombinedOutput ==
    /\ call.pc = "exec"
    /\ \E signature \in BOOLEAN, exit \in {"zero", "nonzero", "notStarted"} :
        /\ exit = "notStarted" => ~signature
        /\ Step([call EXCEPT !.pc = "check", !.signature = signature,
                             !.exit = exit])

\* a ProcessLog that looks at the exit status before the output
ExitStatusFirst(signature, exit) ==
    IF exit # "zero" THEN ErrExecute
    ELSE IF signature THEN ErrRuntime
    ELSE "wait"

\* ProcessLog: strings.Contains(output, "You must install .NET ...") is
\* looked at first, err != nil after it
AfterOutput(signature, exit) ==
    IF signature THEN ErrRuntime
    ELSE IF exit # "zero" THEN ErrExecute
    ELSE "wait"

\* ProcessLog: the two checks, then the call of waitForFile(tempJSONPath)
CheckOutput ==
    /\ call.pc = "check"
    /\ LET r == AfterOutput(call.signature, call.exit)
       IN  Step(IF r = "wait"
                THEN [call EXCEPT !.pc = "exists", !.elapsed = 0, !.waited = TRUE]
                ELSE [call EXCEPT !.pc = "returned", !.ret = r])

\* os.Stat(filePath): nil only for a file that is there, IsNotExist only for
\* one that is not, any other error at any time
StatResults(file) ==
    {"other"} \cup (IF file = "absent" THEN {"notExist"} ELSE {"nil"})

\* a phase 1 that goes on to phase 2 on every error but IsNotExist
FoundUnlessNotExist(err) == err # "notExist"

\* waitForFile: err == nil, goto UNLOCK_CHECK
Found(err) == err = "nil"

Tick(c) == [c EXCEPT !.elapsed = IF @ < Ticks THEN @ + 1 ELSE @]

\* waitForFile, phase 1, case <-ticker.C
PollExists ==
    /\ call.pc = "exists"
    /\ \E err \in StatResults(call.file) :
        Step(IF Found(err)
             THEN [call EXCEPT !.pc = "unlock", !.elapsed = 0]
             ELSE IF err = "notExist" THEN Tick(call)
             ELSE [Tick(call) EXCEPT !.pc = "returned", !.ret = ErrStat])

\* waitForFile, phase 1, case <-timeout
TimeoutExists ==
    /\ call.pc = "exists"
    /\ call.elapsed = Ticks
    /\ Step([call EXCEPT !.pc = "returned", !.ret = ErrExistTimeout])

\* waitForFile, phase 2, case <-ticker.C: os.OpenFile(filePath, os.O_RDWR, 0644)
PollUnlock ==
    /\ call.pc = "unlock"
    /\ \E ok \in BOOLEAN :
        /\ ok => call.file = "ready"
        /\ Step(IF ok
                THEN [Tick(call) EXCEPT !.pc = "returned", !.ret = "nil",
                                        !.path = TempJSONPath(call.logPath)]
                ELSE Tick(call))

\* waitForFile, phase 2, case <-timeout
TimeoutUnlock ==
    /\ call.pc = "unlock"
    /\ call.elapsed = Ticks
    /\ Step([call EXCEPT !.pc = "returned", !.ret = ErrUnlockTimeout])

\* the converter creates the report and holds it while it writes
ReportAppears ==
    /\ call.pc \in {"exec", "check", "exists", "unlock"}
    /\ call.file = "absent"
    /\ Step([call EXCEPT !.file = "locked"])

\* the converter closes the report
ReportReleased ==
    /\ call.pc \in {"exec", "check", "exists", "unlock"}
    /\ call.file = "locked"
    /\ Step([call EXCEPT !.file = "ready"])

ProcessLogStep ==
    \/ ConvMkdirAll
    \/ CombinedOutput
    \/ CheckOutput
    \/ PollExists
    \/ PollUnlock

NextConvert ==
    \/ ProcessLogStep
    \/ TimeoutExists
    \/ TimeoutUnlock
    \/ ReportAppears
    \/ ReportReleased

SpecConvert == InitConvert /\ [][NextConvert]_vars

\* The goroutine of the call is scheduled, and a select whose time-out case
\* stays ready takes it in the end (Go chooses among the ready cases at
\* random).  Nothing is assumed of the converter.
SpecConvertFair ==
    /\ SpecConvert
    /\ WF_vars(ProcessLogStep)
    /\ WF_vars(TimeoutExists)
    /\ WF_vars(TimeoutUnlock)

\* --------------------------------------------- main: watcher to Update
\* The goroutines of main from the start of the watcher to the event loop:
\* the watcher goroutine, one poller per log (numbered as the converted
\* stems are), the unbuffered fileEventChan, the processor goroutine and
\* its p.Send calls, each of which ends when the event loop has taken the
\* message and called Update.  emitted, converted and delivered record the
\* order of the receives from fileEventChan, of the ProcessLog calls and of
\* the messages taken by the event loop.
PipeLogs == 3

NewPipe ==
    [pc |-> "pipe", watcher |-> "starting", walk |-> "none",
     poller |-> [f \in 1..PipeLogs |-> "none"],
     conv |-> [pc |-> "recv", path |-> 0, ok |-> FALSE],
     emitted |-> <<>>, converted |-> <<>>, delivered |-> <<>>]

InitPipe ==
    /\ Start
    /\ lim = Limits(PipeLogs, 2, 0, PipeLogs + 2)
    /\ call = NewPipe

\* watcher.Start: NewWatcher and filepath.Walk fail and it returns the
\* error, or its goroutine runs and it blocks forever
StartWatcher ==
    /\ call.pc = "pipe" /\ call.watcher = "starting"
    /\ \E ok \in BOOLEAN :
        /\ call' = [call EXCEPT !.walk = IF ok THEN "ok" ELSE "failed",
                               !.watcher = IF ok THEN "running" ELSE "failed"]
        /\ UNCHANGED sessionVars

\* a watcher goroutine that starts the watcher again after a failure
RetryStart(w) == "starting"

\* main, watcher goroutine: after p.Send(ErrMsg) the goroutine ends
AfterReport(w) == "ended"

\* main, watcher goroutine: p.Send(tui.ErrMsg{"watcher error"})
ReportFailure ==
    /\ call.pc = "pipe" /\ call.watcher = "failed"
    /\ Handle([type |-> "ErrMsg", Err |-> "WatcherFailed"], cmds)
    /\ call' = [call EXCEPT !.watcher = AfterReport(@),
                           !.delivered = Append(@, <<"watcher error">>)]
    /\ UNCHANGED <<temp, routed, updSent>>

\* a .zevtc file is created under the watched folder and the running
\* watcher starts its poller
FileCreated ==
    /\ call.pc = "pipe" /\ call.watcher = "running"
    /\ \E f \in 1..PipeLogs :
        /\ call.poller[f] = "none"
        /\ call' = [call EXCEPT !.poller[f] = "polling"]
        /\ UNCHANGED sessionVars

\* a poller that drops its path when the converter is not receiving
DropWhenBusy(convPc) == IF convPc = "recv" THEN "sending" ELSE "done"

\* poller: eventChan <- absPath on the unbuffered channel blocks
AfterOpen(convPc) == "sending"

\* poller: os.OpenFile succeeds and the poller goes on to send
FileOpens ==
    /\ call.pc = "pipe"
    /\ \E f \in 1..PipeLogs :
        /\ call.poller[f] = "polling"
        /\ call' = [call EXCEPT !.poller[f] = AfterOpen(call.conv.pc)]
        /\ UNCHANGED sessionVars

\* a processor that takes the next path while it still works on one
ReceivesWhenever(convPc) == TRUE

\* main, processor goroutine: for filePath := range fileEventChan is at its
\* receive only between two turns of the loop
Receives(convPc) == convPc = "recv"

\* the send of the poller of f and the receive of the processor goroutine
Receive(f) ==
    /\ call.pc = "pipe"
    /\ Receives(call.conv.pc)
    /\ call.poller[f] = "sending"
    /\ call' = [call EXCEPT !.poller[f] = "done",
                           !.emitted = Append(@, f),
                           !.conv = [pc |-> "status", path |-> f, ok |-> FALSE]]
    /\ UNCHANGED sessionVars

\* main, processor goroutine: p.Send(tui.StatusMsg("Processing: ..."))
SendStatus ==
    /\ call.pc = "pipe" /\ call.conv.pc = "status"
    /\ Handle([type |-> "StatusMsg", text |-> <<"Processing", call.conv.path>>], cmds)
    /\ call' = [call EXCEPT !.conv.pc = "process",
                           !.delivered = Append(@, <<"status", call.conv.path>>)]
    /\ UNCHANGED <<temp, routed, updSent>>

\* main, processor goroutine: processor.ProcessLog(filePath) returns
ProcessLogReturns ==
    /\ call.pc = "pipe" /\ call.conv.pc = "process"
    /\ \E ok \in BOOLEAN :
        /\ call' = [call EXCEPT !.conv.pc = "result", !.conv.ok = ok,
                               !.converted = Append(@, call.conv.path)]
        /\ UNCHANGED sessionVars

\* main, processor goroutine: p.Send of the ErrMsg or of the
\* TempLogProcessedMsg, whose report parses or not
SendResult ==
    /\ call.pc = "pipe" /\ call.conv.pc = "result"
    /\ LET f == call.conv.path
           next == [call EXCEPT !.conv = [pc |-> "recv", path |-> 0, ok |-> FALSE],
                                !.delivered = Append(@, <<"result", f>>)]
       IN  IF call.conv.ok
           THEN \E parses \in BOOLEAN :
                  LET msg == TempLogProcessed(f, parses)
                      r == Update(m, msg, mints + 1)
                  IN  /\ Handle(msg, cmds)
                      /\ routed' = MapPut(routed, f,
                                          IF r.cmd = <<>> THEN NoPath ELSE r.cmd[1].aux)
                      /\ temp' = temp \cup {TempJSONPath(f)}
                      /\ call' = next
                      /\ UNCHANGED updSent
           ELSE /\ Handle([type |-> "ErrMsg", Err |-> "ConvertFailed"], cmds)
                /\ call' = next
                /\ UNCHANGED <<temp, routed, updSent>>

Receiving == \E f \in 1..PipeLogs : Receive(f)

NextPipe ==
    \/ StartWatcher
    \/ ReportFailure
    \/ FileCreated
    \/ FileOpens
    \/ Receiving
    \/ SendStatus
    \/ ProcessLogReturns
    \/ SendResult

SpecPipe == InitPipe /\ [][NextPipe]_vars

\* the same with the keys of the user
NextPipeKeys == NextPipe \/ KeyPress

SpecPipeKeys == InitPipe /\ [][NextPipeKeys]_vars

\* The processor goroutine is scheduled, ProcessLog returns, the event loop
\* takes what p.Send offers, and a sender blocked on fileEventChan is served
\* when the receiver comes back to it often enough (the senders blocked on
\* a Go channel wait in a queue).  Nothing is assumed of the files.
SpecPipeFair ==
    /\ SpecPipe
    /\ WF_vars(SendStatus)
    /\ WF_vars(ProcessLogReturns)
    /\ WF_vars(SendResult)
    /\ \A f \in 1..PipeLogs : SF_vars(Receive(f))

\* ------------------------------------------------------- watcher.Start
\* The watcher goroutine and the pollers it starts, with the directory tree
\* under the watched folder: WatchFolder/WvW/Commander.  A file is absent,
\* held by its writer ("locked": os.OpenFile fails) or released ("ready").
\* inotify reports a creation only for a directory that is registered at
\* the time.  Nothing is deleted, os.Stat of a reported name and
\* watcher.Add succeed.
WatchFolder == "arcdps.cbtlogs"
SubDirs == {"WvW", "Commander"}
Parent(d) == IF d = "Commander" THEN "WvW" ELSE WatchFolder

WatchFiles == {<<"fight1", ".zevtc">>, <<"fight2", ".ZEVTC">>, <<"arcdps", ".log">>}
Place(f) == IF f[1] = "fight2" THEN "Commander" ELSE WatchFolder

RECURSIVE DirPath(_)
DirPath(d) == IF d = WatchFolder THEN <<WatchFolder>> ELSE Join(DirPath(Parent(d)), d)
FilePath(f) == Join(DirPath(Place(f)), f)

\* filepath.Abs of a relative path
Abs(path) == <<"cwd">> \o path

\* strings.ToLower, on the extension
ToLower(ext) == IF ext = ".ZEVTC" THEN ".zevtc" ELSE ext

\* strings.HasSuffix(strings.ToLower(event.Name), ".zevtc")
IsTarget(f) == ToLower(f[2]) = ".zevtc"

\* filepath.Walk at Start: every directory that exists is registered
NewWatch(made) ==
    [pc |-> "watch", made |-> made, watched |-> {WatchFolder} \cup made,
     file |-> [f \in WatchFiles |-> "absent"],
     events |-> <<>>,
     poller |-> [f \in WatchFiles |-> "none"],
     eventChan |-> <<>>]

InitWatch ==
    /\ Start
    /\ lim = Limits(0, 0, 0, 0)
    /\ \E made \in {{}, {"WvW"}, {"WvW", "Commander"}} : call = NewWatch(made)

Exists(d) == d = WatchFolder \/ d \in call.made

\* inotify: a creation in a registered directory is queued for the watcher
Notify(dir, name) ==
    IF dir \in call.watched THEN Append(call.events, name) ELSE call.events

\* somebody creates a directory under the watched folder
MakeDir ==
    /\ call.pc = "watch"
    /\ \E d \in SubDirs \ call.made :
        /\ Exists(Parent(d))
        /\ Step([call EXCEPT !.made = @ \cup {d},
                             !.events = Notify(Parent(d), d)])

\* arcdps creates a file and holds it while it writes
CreateFile ==
    /\ call.pc = "watch"
    /\ \E f \in WatchFiles :
        /\ Exists(Place(f))
        /\ call.file[f] = "absent"
        /\ Step([call EXCEPT !.file[f] = "locked",
                             !.events = Notify(Place(f), f)])

\* arcdps closes the file
ReleaseFile ==
    /\ call.pc = "watch"
    /\ \E f \in WatchFiles :
        /\ call.file[f] = "locked"
        /\ Step([call EXCEPT !.file[f] = "ready"])

\* Start, goroutine, case event := <-watcher.Events with fsnotify.Create:
\* a directory is added to the watcher (itself, not what is in it), a
\* .zevtc file gets its poller
HandleEvent ==
    /\ call.pc = "watch"
    /\ call.events # <<>>
    /\ LET name == Head(call.events)
           c == [call EXCEPT !.events = Tail(@)]
       IN  Step(IF name \in SubDirs
                THEN [c EXCEPT !.watched = @ \cup {name}]
                ELSE IF IsTarget(name)
                THEN [c EXCEPT !.poller[name] = "polling"]
                ELSE c)

\* an open that succeeds on a file its writer still holds
OpensAnyway(state) == TRUE

\* os.OpenFile(filePath, os.O_RDONLY, 0644) returns no error
Opens(state) == state = "ready"

\* a poller that stops after a failed open
GiveUp(f) == "quit"

\* ReadinessPoller: time.Sleep(250 ms) and the next turn of its loop
AfterFailedOpen(f) == "polling"

\* ReadinessPoller of filePath: one turn of its loop
Poll(f) ==
    /\ call.pc = "watch"
    /\ call.poller[f] = "polling"
    /\ Step([call EXCEPT !.poller[f] = IF Opens(call.file[f]) THEN "opened"
                                       ELSE AfterFailedOpen(f)])

\* ReadinessPoller of filePath: eventChan <- absPath, received by the
\* processor goroutine of main, and break
Emit(f) ==
    /\ call.pc = "watch"
    /\ call.poller[f] = "opened"
    /\ Step([call EXCEPT !.poller[f] = "done",
                         !.eventChan = Append(@, Abs(FilePath(f)))])

Polling == \E f \in WatchFiles : Poll(f)
Emitting == \E f \in WatchFiles : Emit(f)

NextWatch ==
    \/ MakeDir
    \/ CreateFile
    \/ ReleaseFile
    \/ HandleEvent
    \/ Polling
    \/ Emitting

SpecWatch == InitWatch /\ [][NextWatch]_vars

\* The watcher goroutine and every poller goroutine are scheduled, and the
\* processor goroutine comes back to receive from eventChan.  Nothing is
\* assumed of who creates and releases files.
SpecWatchFair ==
    /\ SpecWatch
    /\ WF_vars(HandleEvent)
    /\ \A f \in WatchFiles : WF_vars(Poll(f)) /\ WF_vars(Emit(f))

\* ------------------------------------------------------------------ claims
StemOf(p) == Base(p)[1]
Stem(c) == StemOf(c.path)
ArchivesInFlight == Running("archive", "pending") \cup Running("archive", "moved")
RoutedTo(run) == {f \in DOMAIN routed : routed[f] = run}
IsSorted(s) == \A i \in 1..(Len(s) - 1) : ~NameLess(s[i + 1], s[i])
Count(s, x) == Cardinality({i \in 1..Len(s) : s[i] = x})
ListSize == IF m.viewMode = runsView THEN Len(m.runList) ELSE Len(m.logList)

\* C1: no run directory receives more than 30 logs: the files routed to
\* one run directory are never more than RunCap.
C1_RunNeverExceedsCap ==
    \A f \in DOMAIN routed :
        routed[f] # NoPath => Cardinality(RoutedTo(routed[f])) <= RunCap

\* C2: 0 <= selectedIndex <= length of the displayed list in every state
\* (runList in runsView, logList in logsView), and no handler indexes the
\* list outside its bounds (no index-out-of-range panic).
C2_SelectionInBounds ==
    /\ ~panicked
    /\ 0 <= m.selectedIndex
    /\ m.selectedIndex <= ListSize

\* C3: in every state, a TempLogProcessedMsg whose report parses makes
\* Update return exactly one archive command for that file.
C3_EveryFileArchived ==
    \A stem \in (1..lim.files) \ DOMAIN routed :
        LET r == Update(m, TempLogProcessed(stem, TRUE), mints + 1)
        IN  ~panicked =>
                /\ Len(r.cmd) = 1
                /\ r.cmd[1].kind = "archive"
                /\ r.cmd[1].path = TempJSONPath(stem)

\* C4: on a TempLogProcessedMsg whose report parses, a new run is started
\* iff the view is runsView, or logsView with at least RunCap displayed logs;
\* then viewMode is logsView, the current-run state is cleared and
\* currentRunPath is the minted directory, the destination; otherwise the
\* destination is the unchanged currentRunPath and the model is not modified.
C4_NewRunIff ==
    \A stem \in (1..lim.files) \ DOMAIN routed :
        LET r == Update(m, TempLogProcessed(stem, TRUE), mints + 1)
            new == m.viewMode = runsView
                   \/ (m.viewMode = logsView /\ Len(m.logList) >= RunCap)
        IN  ~panicked =>
                /\ r.minted <=> new
                /\ Len(r.cmd) = 1
                /\ r.minted =>
                    /\ r.m.viewMode = logsView
                    /\ r.m.logs = <<>> /\ r.m.logList = <<>>
                    /\ r.m.logFullPaths = <<>>
                    /\ r.m.selectedIndex = 0 /\ r.m.selectedCard = 0
                    /\ r.m.currentRunPath = Join(<<LogArchive>>, r.m.currentRunName)
                    /\ r.cmd[1].aux = r.m.currentRunPath
                /\ ~r.minted =>
                    /\ r.m = m
                    /\ r.cmd[1].aux = m.currentRunPath

\* C5: starting in runsView, with every LogfileArchivedMsg received before
\* the next TempLogProcessedMsg: the first file mints a run, which holds one
\* log once archived; files 2..RunCap are appended to that run; file
\* RunCap + 1 starts another run; between arrivals the displayed run is the
\* run of the last file and lists exactly the files routed to it.
C5_ThirtyThenNewRun ==
    /\ \A f \in DOMAIN routed :
        /\ routed[f] # NoPath
        /\ f <= RunCap => routed[f] = routed[1]
        /\ f > RunCap => routed[f] # routed[1]
        /\ (f > RunCap /\ f <= 2 * RunCap) => routed[f] = routed[RunCap + 1]
    /\ (routed # <<>> /\ ArchivesInFlight = {}) =>
        /\ m.viewMode = logsView
        /\ m.currentRunPath = routed[Cardinality(DOMAIN routed)]
        /\ m.currentRunPath \in dirs
        /\ Len(m.logList) = Cardinality(RoutedTo(m.currentRunPath))
        /\ \A f \in RoutedTo(m.currentRunPath) :
               Join(m.currentRunPath, Base(TempJSONPath(f))) \in archived

\* file RunCap + 1 has arrived and is archived: its run displays one log, the
\* first run holds RunCap files
C5_SecondRunStarted ==
    /\ Cardinality(DOMAIN routed) = RunCap + 1
    /\ ArchivesInFlight = {}
    /\ Len(m.logList) = 1
    /\ Cardinality({p \in archived : Dir(p) = routed[1]}) = RunCap

\* C6: a file is archived into exactly the run directory resolved when its
\* TempLogProcessedMsg was handled: the archive command in flight keeps that
\* destination whatever the model does meanwhile, and the archived file
\* lies in that directory and in no other.
C6_ArchivedWhereResolved ==
    /\ \A c \in ArchivesInFlight :
        Stem(c) \in DOMAIN routed /\ c.aux = routed[Stem(c)]
    /\ \A p \in archived :
        StemOf(p) \in DOMAIN routed /\ Dir(p) = routed[StemOf(p)]

\* the user left the run a file was routed to, and the file was moved there
C6_MovedAfterNavigation ==
    \E c \in Running("archive", "moved") :
        /\ m.currentRunPath # c.aux
        /\ ArchivedPath(c) \in archived
        /\ Dir(ArchivedPath(c)) = routed[Stem(c)]

\* C7: receiving a LogfileArchivedMsg whose directory is not currentRunPath
\* leaves the model unchanged and starts no command.
C7_OtherRunIgnored ==
    [][\A c \in Running("archive", "moved") :
          (c \notin cmds' /\ Dir(ArchivedPath(c)) # m.currentRunPath) =>
              /\ m' = m
              /\ cmds' = cmds \ {c}
              /\ dirs' = dirs /\ archived' = archived]_vars

\* the result of an archive into a run that is not displayed waits to be
\* received, no confirmation is pending, and Update ignores it
C7_OtherRunResult ==
    \E c \in Running("archive", "moved") :
        /\ ~panicked /\ ~m.confirming
        /\ Dir(ArchivedPath(c)) # m.currentRunPath
        /\ Update(m, LogfileArchived(c), mints + 1) = Ret(m, <<>>)

\* C8: after a LogfileArchivedMsg of the current run is received, logList is
\* sorted ascending and contains the display name exactly once, logFullPaths
\* maps the name to the archived path, and selectedIndex points at it.
C8_ArchivedLogListed ==
    [][\A c \in Running("archive", "moved") :
          (c \notin cmds' /\ Dir(ArchivedPath(c)) = m.currentRunPath) =>
              LET name == DisplayName(ArchivedPath(c))
              IN  /\ IsSorted(m'.logList)
                  /\ Count(m'.logList, name) = 1
                  /\ MapGet(m'.logFullPaths, name, NoPath) = ArchivedPath(c)
                  /\ m'.selectedIndex \in 1..Len(m'.logList)
                  /\ m'.logList[m'.selectedIndex] = name]_vars

\* C9: the display names in logList are pairwise distinct in every state.
C9_NamesDistinct ==
    \A i, j \in 1..Len(m.logList) : i # j => m.logList[i] # m.logList[j]

\* C10: when the AllLogsParsedMsg of a load of the displayed run is received
\* (which is after every message of its batch), and the run directory holds
\* the N parseable files the load found, logList has exactly N entries and
\* is sorted ascending.
C10_LoadListsEveryFile ==
    [][\A c \in Running("loadLogs", "read") :
          (/\ c.set = {}
           /\ c \notin cmds'
           /\ c.path = m.currentRunPath
           /\ c.read = {p \in archived : Dir(p) = c.path}) =>
              /\ Len(m'.logList) = Cardinality(c.read)
              /\ IsSorted(m'.logList)]_vars

\* the part of the model no confirmation dialogue may touch
Lists(mm) ==
    <<mm.runList, mm.logList, mm.logs, mm.logFullPaths, mm.viewMode,
      mm.currentRunPath, mm.currentRunName, mm.selectedIndex, mm.selectedCard>>

\* C11: while a confirmation is pending, every key other than y/Y/n/N/esc
\* (navigation, selection, delete, quit) leaves the model unchanged and
\* issues no command.
C11_KeysBlocked ==
    m.confirming =>
        \A k \in Keys \ {"y", "n"} :
            Update(m, KeyMsg(k), mints + 1) = Ret(m, <<>>)

\* a deletion waits for its answer and the quit key is pressed
C11_QuitWhileConfirming ==
    /\ m.confirming /\ ~panicked
    /\ m.itemToDelete # NoPath
    /\ Update(m, KeyMsg("q"), mints + 1) = Ret(m, <<>>)

\* C17: ctrl+d with the cursor on an entry of the list (not the sentinel row
\* 0) records a pending confirmation, its type and its target, and nothing
\* else: lists, maps, view mode, current run and cursors are unchanged and no
\* command is issued; ctrl+d on the sentinel row changes nothing at all.
C17_DeleteRequestOnlyAsks ==
    (~panicked /\ ~m.confirming /\ m.selectedIndex <= ListSize) =>
        LET r == Update(m, KeyMsg("ctrl+d"), mints + 1)
        IN  /\ ~r.panic
            /\ r.cmd = <<>>
            /\ Lists(r.m) = Lists(m)
            /\ m.selectedIndex = 0 => r.m = m
            /\ (m.selectedIndex > 0 /\ m.focusedPanel = leftPanel) =>
                /\ r.m.confirming
                /\ r.m.confirmationType =
                     (IF m.viewMode = runsView THEN confirmDeleteRun
                      ELSE confirmDeleteLog)
                /\ r.m.itemToDelete =
                     (IF m.viewMode = runsView
                      THEN Join(<<LogArchive>>, m.runList[m.selectedIndex])
                      ELSE m.logList[m.selectedIndex])

\* the deletion of the log under the cursor was requested and waits
C17_LogDeletionAsked ==
    /\ m.confirming /\ m.confirmationType = confirmDeleteLog
    /\ m.viewMode = logsView
    /\ m.selectedIndex \in 1..Len(m.logList)
    /\ m.itemToDelete = m.logList[m.selectedIndex]
    /\ m.itemToDelete \in DOMAIN m.logFullPaths

\* C18: answering a pending confirmation with n/N/esc clears the pending
\* confirmation and its target, issues no command and leaves lists, maps,
\* view mode, current run and both cursors unchanged.
C18_CancelOnlyClears ==
    m.confirming =>
        LET r == Update(m, KeyMsg("n"), mints + 1)
        IN  /\ r.cmd = <<>>
            /\ ~r.panic
            /\ ~r.m.confirming
            /\ r.m.itemToDelete = NoPath
            /\ r.m.updateURL = NoURL
            /\ Lists(r.m) = Lists(m)

\* a run deletion was cancelled with the cursor still on the run
C18_RunDeletionCancelled ==
    /\ ~m.confirming
    /\ m.status = <<"Action cancelled.">>
    /\ m.viewMode = runsView
    /\ m.selectedIndex \in 1..Len(m.runList)
    /\ Join(<<LogArchive>>, m.runList[m.selectedIndex]) \in dirs

\* C20: an ErrMsg received in any state is stored as the most recent error
\* and changes nothing else, and a TempLogProcessedMsg whose report does not
\* parse stores the error and issues no archive command.
C20_ErrorOnlyStored ==
    ~panicked =>
        /\ Update(m, [type |-> "ErrMsg", Err |-> "MoveFailed"], mints + 1)
             = Ret([m EXCEPT !.err = "MoveFailed"], <<>>)
        /\ \A stem \in (1..lim.files) \ DOMAIN routed :
             Update(m, TempLogProcessed(stem, FALSE), mints + 1)
               = Ret([m EXCEPT !.err = "ParseFailure"], <<>>)

\* ArchiveLogFiles: where the HTML report of an archived JSON report lies
PairedHtml(jsonPath) == Join(Dir(jsonPath), <<StemOf(jsonPath), SuffixHtml>>)

\* C15: answering 'y' to a pending log deletion removes exactly one entry
\* from logList, the log named in the request, with its logs and
\* logFullPaths entries, keeps the other entries and their order, keeps
\* selectedIndex within 0..len(logList), and issues exactly one command,
\* which removes the JSON file of that log and its paired HTML file.
C15_LogDeletionConfirmed ==
    (m.confirming /\ m.confirmationType = confirmDeleteLog) =>
        LET item == m.itemToDelete
            r == Update(m, KeyMsg("y"), mints + 1)
            i == IndexOf(m.logList, item, 1)
        IN  /\ i > 0
            /\ r.m.logList = RemoveAt(m.logList, i)
            /\ item \in DOMAIN m.logFullPaths
            /\ r.m.logFullPaths = MapDel(m.logFullPaths, item)
            /\ r.m.logs = MapDel(m.logs, m.logFullPaths[item])
            /\ r.m.selectedIndex \in 0..Len(r.m.logList)
            /\ Len(r.cmd) = 1
            /\ r.cmd[1].kind = "deleteLog"
            /\ DeleteLogTargets(r.cmd[1].path)
                 = {m.logFullPaths[item], PairedHtml(m.logFullPaths[item])}

Without(s, x) == SelectSeq(s, LAMBDA y : y # x)

\* C16: answering 'y' to a pending run deletion issues exactly one command,
\* which removes the directory of that run with everything in it and then
\* enumerates the archive; once the RunsLoadedMsg of that command is
\* received, runList is the runs listed before without the deleted one.
C16_RunDeletionConfirmed ==
    [][/\ (m.confirming /\ m.confirmationType = confirmDeleteRun) =>
            LET r == Update(m, KeyMsg("y"), mints + 1)
            IN  /\ r.cmd = <<deleteRun(m.itemToDelete)>>
                /\ DirsAfter(r.cmd[1], dirs) = dirs \ {m.itemToDelete}
                /\ FilesAfter(r.cmd[1], archived)
                     = {p \in archived : Dir(p) # m.itemToDelete}
                /\ \A c \in Started(r.cmd[1], dirs, archived, loads) :
                     c.kind = "loadRuns" /\ c.set = RunNames(dirs \ {m.itemToDelete})
       /\ \A c \in Running("loadRuns", "done") :
            (c.path # NoPath /\ c \notin cmds') =>
                m'.runList = Without(m.runList, Base(c.path))]_vars

\* C19: every failure of a background task is converted into an error event
\* (an ErrMsg) for the state machine: what the goroutine of a failed command
\* returns is an ErrMsg.
C19_FailuresBecomeErrMsg ==
    \A c \in cmds :
        (c.stage = "failed" \/ (c.kind = "archive" /\ c.stage = "pending")) =>
            FailureMsg(c).type = "ErrMsg"

ReportNames == {"json", "html"}

\* C12: when moveFileWithRetry returns a failure, the source file was never
\* removed: it exists as it did before the call, whichever step failed in
\* each attempt.
C12_FailedMoveKeepsSource ==
    \A f \in ReportNames :
        call.moved[f] = "failed" =>
            call.src[f] # Absent /\ call.src[f] = call.pre[f]

\* the move of the JSON report failed after an attempt that had copied it
C12_MoveFailedAfterCopy ==
    /\ call.moved.json = "failed"
    /\ call.dest.json # Absent
    /\ call.src.json = call.pre.json

\* C13: the source is deleted only in an attempt in which the copy completed
\* and the two sizes were compared equal; when the move has returned success
\* the destination exists with the size of the source and the source does
\* not exist.
C13_DeletedOnlyWhenVerified ==
    [][\A f \in ReportNames :
          /\ (call.src[f] # Absent /\ call'.src[f] = Absent) =>
                /\ call.pc = "remove" /\ call.phase = f
                /\ call.copied /\ call.verified
                /\ call.srcInfo = Size(call.src[f])
                /\ call.destInfo = Size(call.src[f])
          /\ call'.moved[f] = "ok" =>
                /\ call'.dest[f] = call.pre[f]
                /\ call'.src[f] = Absent]_vars

\* both reports, of different sizes, were moved into the run directory
C13_BothMoved ==
    /\ call.moved.json = "ok" /\ call.moved.html = "ok"
    /\ call.src = [json |-> Absent, html |-> Absent]
    /\ call.dest = call.pre
    /\ call.pre.json # call.pre.html

\* C14: ArchiveLogFiles returns the archived JSON path whenever the move of
\* the JSON report succeeded, also when the wait for the HTML report times
\* out or its move fails; when the move of the JSON report fails it returns
\* an error and never touches the HTML report.
C14_JsonDecidesResult ==
    call.pc = "returned" =>
        /\ call.ret = "archived" <=> call.moved.json = "ok"
        /\ call.ret = "error" <=> call.moved.json # "ok"
        /\ call.moved.json # "ok" =>
            /\ call.waited = "none" /\ call.moved.html = "none"
            /\ call.src.html = call.pre.html /\ call.dest.html = Absent

\* the archive was returned as done although the HTML report stayed behind
C14_ArchivedWithoutHtml ==
    /\ call.pc = "returned" /\ call.ret = "archived"
    /\ call.moved.html = "failed"
    /\ call.dest.json = call.pre.json

\* C21: once an error is stored, a later event that sets a new status line
\* makes the status area show that status line in place of the error.
C21_NewerStatusShown ==
    [][(m.err # NoErr /\ m'.status # m.status /\ m'.err = m.err)
         => renderStatusBar(m') = m'.status]_vars

\* C29: Update reads no file while it handles an event: the report of a
\* converted log is read and parsed by a command, not by the handler of the
\* TempLogProcessedMsg itself.
C29_UpdateReadsNoFile ==
    \A stem \in (1..lim.files) \ DOMAIN routed, parses \in BOOLEAN :
        FilesRead(m, TempLogProcessed(stem, parses)) = {}

\* the steps of one attempt of moveFileWithRetry
AttemptSteps == {"open", "create", "copy", "statSrc", "statDest", "compare", "remove"}

\* C30: moveFileWithRetry makes at most Retries attempts and returns: with
\* success out of the first attempt whose open, create, copy, two stats,
\* size comparison and removal all succeed, with a failure only after
\* attempt number Retries has failed, and a failed step of an attempt is
\* followed by the next attempt from its first step.
C30_MoveTerminates ==
    /\ [](/\ call.i <= Retries
          /\ call.pc \in AttemptSteps => call.i < Retries)
    /\ [][/\ (call'.moved # call.moved /\ call'.moved[call.phase] = "ok")
              => /\ call.pc = "remove" /\ call.copied /\ call.verified
                 /\ call.src[call.phase] # Absent
                 /\ call'.src[call.phase] = Absent
                 /\ call'.i = call.i
          /\ (call'.moved # call.moved /\ call'.moved[call.phase] = "failed")
              => call.pc = "loop" /\ call.i = Retries
          /\ (call.pc \in AttemptSteps /\ call'.pc \notin AttemptSteps)
              => \/ call.pc = "remove" /\ call'.moved[call.phase] = "ok"
                 \/ call'.pc = "loop" /\ call'.i = call.i + 1
          /\ (call.pc = "loop" /\ call.i < Retries) => call'.pc = "open"]_vars
    /\ <>(call.pc = "returned")

\* the JSON report is moved by the last attempt allowed, after two failed ones
C30_MovedByLastAttempt ==
    /\ call.pc = "moved" /\ call.phase = "json"
    /\ call.moved.json = "ok"
    /\ call.i = Retries - 1

\* C22: ProcessLog calls waitForFile only when the output of the converter
\* does not hold the missing-runtime line and the converter exited with
\* status 0; with the line in the output it fails with the missing-runtime
\* error whatever the exit status, without it and with an exit error it
\* fails with the execution error, and both failures come without any wait
\* and without a path.
C22_WaitsOnlyAfterCleanExit ==
    /\ call.pc \in {"exists", "unlock"} => call.waited
    /\ call.waited => ~call.signature /\ call.exit = "zero"
    /\ (call.pc = "returned" /\ call.exit # "none") =>
         /\ call.signature =>
              call.ret = ErrRuntime /\ ~call.waited /\ call.path = NoPath
         /\ (~call.signature /\ call.exit # "zero") =>
              call.ret = ErrExecute /\ ~call.waited /\ call.path = NoPath
         /\ (~call.signature /\ call.exit = "zero") => call.waited

\* the converter prints the missing-runtime line and exits with an error
C22_RuntimeMissing ==
    /\ call.pc = "returned"
    /\ call.signature /\ call.exit = "nonzero"
    /\ call.ret = ErrRuntime

\* C23: waitForFile is in its second phase only for a file that os.Stat has
\* found, and returns a path only for a file it has found and then opened
\* for reading and writing; the path is the one it was asked to wait for.
C23_ReadyOnlyWhenOpened ==
    /\ call.pc = "unlock" => call.file # "absent"
    /\ call.ret = "nil" <=> call.path # NoPath
    /\ call.path # NoPath =>
         /\ call.pc = "returned" /\ call.waited
         /\ call.file = "ready"
         /\ call.path = TempJSONPath(call.logPath)
    /\ (call.pc = "returned" /\ call.file # "ready") => call.path = NoPath

\* the report is returned after polls that found it locked
C23_ReportReady ==
    /\ call.pc = "returned" /\ call.path # NoPath
    /\ call.elapsed > 1

\* C24: waitForFile returns, and when it returns a failure its time-out of
\* Ticks ticks has elapsed and the failure is the time-out of the phase.
C24_WaitEndsAtTimeout ==
    /\ <>(call.pc = "returned")
    /\ [](call.pc = "returned" /\ call.waited /\ call.ret # "nil"
            => /\ call.elapsed = Ticks
               /\ call.ret \in {ErrExistTimeout, ErrUnlockTimeout})

\* how often the watcher has emitted the path of f
Emitted(f) == Count(call.eventChan, Abs(FilePath(f)))

\* C25: the watcher emits the absolute path of a created file at most once,
\* only for a file with the .zevtc extension whose creation it was told of,
\* and only after an open for reading has succeeded, never while the writer
\* still holds the file; a poller that has ended has emitted exactly once.
C25_EmittedOnceWhenOpened ==
    \A f \in WatchFiles :
        /\ Emitted(f) <= 1
        /\ Emitted(f) = 1 <=> call.poller[f] = "done"
        /\ call.poller[f] \in {"opened", "done"} => call.file[f] = "ready"
        /\ call.poller[f] # "none" =>
              /\ IsTarget(f)
              /\ call.file[f] # "absent"
              /\ Place(f) \in call.watched
        /\ \A i \in 1..Len(call.eventChan) :
              \E g \in WatchFiles : call.eventChan[i] = Abs(FilePath(g))

\* one log is emitted while the other one waits for its poller's event
C25_OneEmitted ==
    /\ Emitted(<<"fight2", ".ZEVTC">>) = 1
    /\ call.file[<<"fight1", ".zevtc">>] = "locked"
    /\ call.file[<<"arcdps", ".log">>] = "ready"

\* C26: a poller never ends without emitting, a file that has a poller is
\* emitted once it can be opened, and this holds for each file whatever the
\* pollers of the other files do.
C26_PollerNeverGivesUp ==
    /\ [](\A f \in WatchFiles : call.poller[f] \in {"none", "polling", "opened", "done"})
    /\ \A f \in WatchFiles :
          (call.poller[f] # "none" /\ call.file[f] = "ready") ~> (Emitted(f) = 1)

\* a log is emitted while the poller of another one is still held up
C26_EmittedPastStuckPoller ==
    /\ call.poller[<<"fight1", ".zevtc">>] = "polling"
    /\ call.file[<<"fight1", ".zevtc">>] = "locked"
    /\ Emitted(<<"fight2", ".ZEVTC">>) = 1

\* C27: every directory made under the watched folder becomes registered,
\* and every .zevtc file created under it after Start is emitted once it
\* can be opened.
C27_WholeSubtreeWatched ==
    /\ \A d \in SubDirs : (d \in call.made) ~> (d \in call.watched)
    /\ \A f \in {g \in WatchFiles : IsTarget(g)} :
          (call.file[f] = "ready") ~> (Emitted(f) = 1)

\* the messages a command in flight can hand to the event loop
ResultsOf(c) ==
    CASE c.stage = "failed" /\ c.kind \in MayFail ->
           {FailureMsg(c)} \ {[type |-> "nil"]}
      [] c.kind = "loadRuns" /\ c.stage = "done" ->
           {[type |-> "RunsLoadedMsg", Runs |-> SortReverse(ReadDir(c.set))]}
      [] c.kind = "loadLogs" /\ c.stage = "failed" ->
           {[type |-> "ErrMsg", Err |-> "ReadDirFailed"]}
      [] c.kind = "loadLogs" /\ c.stage = "read" ->
           {[type |-> "SingleLogParsedMsg", Log |-> ParseLog(p), FullPath |-> p] : p \in c.set}
             \cup {[type |-> "ErrMsg", Err |-> "ParseFailure"], [type |-> "AllLogsParsedMsg"]}
      [] c.kind = "archive" /\ c.stage = "pending" ->
           {[type |-> "ErrMsg", Err |-> "MoveFailed"]}
      [] c.kind = "archive" /\ c.stage = "moved" -> {LogfileArchived(c)}
      [] OTHER -> {}

\* the messages the event loop can receive next
Inbox ==
    {KeyMsg(k) : k \in Keys}
      \cup {TempLogProcessed(stem, parses) :
               stem \in (1..lim.files) \ DOMAIN routed, parses \in BOOLEAN}
      \cup UNION {ResultsOf(c) : c \in cmds}

\* C28: the model of the session changes only in a step in which Update
\* handles one message, and then to what Update returns for that message;
\* the step of a command task that works on the disk, and every other step
\* outside Update, leaves every field of it as it was.
C28_OnlyUpdateWritesState ==
    [][/\ m' # m => \E msg \in Inbox : m' = Update(m, msg, mints + 1).m
       /\ (\E c \in cmds : c.stage = "pending" /\ [c EXCEPT !.stage = "moved"] \in cmds')
            => m' = m]_vars

\* an archive task has moved its report and not handed over its result yet
C28_TaskDoneBesideLoop ==
    \E c \in Running("archive", "moved") :
        /\ ArchivedPath(c) \in archived
        /\ DisplayName(ArchivedPath(c)) \notin DOMAIN m.logFullPaths
        /\ m.status # <<"Select a run or wait for a new one.">>

\* C33: enter in the run list, on "New Run" (index 0): the view shows the
\* logs of a run named UnknownCommander and the time of the call, with the
\* logs, the list and the cursor cleared, and one command creates its
\* directory; on any other index i the run runList[i-1] is adopted, the view
\* shows its logs with an empty list, and one command loads its logs.
C33_SelectInRunList ==
    (~panicked /\ ~m.confirming /\ m.viewMode = runsView
       /\ m.focusedPanel = leftPanel) =>
        LET r == Update(m, KeyMsg("enter"), mints + 1)
            i == m.selectedIndex
        IN  /\ ~r.panic
            /\ r.m.viewMode = logsView
            /\ r.m.logList = <<>> /\ r.m.logs = <<>> /\ r.m.logFullPaths = <<>>
            /\ r.m.selectedIndex = 0
            /\ r.m.currentRunPath = Join(<<LogArchive>>, r.m.currentRunName)
            /\ Len(r.cmd) = 1
            /\ r.cmd[1].path = r.m.currentRunPath
            /\ IF i = 0
               THEN /\ r.m.currentRunName = <<UnknownCommander, mints + 1>>
                    /\ r.cmd[1].kind = "mkdir"
               ELSE /\ i - 1 < Len(m.runList)
                    /\ r.m.currentRunName = At(m.runList, i - 1)
                    /\ r.cmd[1].kind = "loadLogs"

\* C34: enter in the log list, on "../" (index 0): the current run path,
\* logs, logList and logFullPaths are cleared, the cursor is at 0, the view
\* is the run list and exactly one command re-reads the runs; on any other
\* index the view mode and the current run stay and no command is issued.
C34_SelectInLogList ==
    (~panicked /\ ~m.confirming /\ m.viewMode = logsView
       /\ m.focusedPanel = leftPanel) =>
        LET r == Update(m, KeyMsg("enter"), mints + 1)
        IN  /\ ~r.panic
            /\ IF m.selectedIndex = 0
               THEN /\ r.m.viewMode = runsView
                    /\ r.m.currentRunPath = NoPath
                    /\ r.m.logs = <<>> /\ r.m.logList = <<>>
                    /\ r.m.logFullPaths = <<>>
                    /\ r.m.selectedIndex = 0
                    /\ r.cmd = <<loadRunsCmd>>
               ELSE /\ r.m.viewMode = m.viewMode
                    /\ r.m.currentRunPath = m.currentRunPath
                    /\ r.m.currentRunName = m.currentRunName
                    /\ r.m.logList = m.logList
                    /\ r.cmd = <<>>

\* the cursor is on "../" of a run that shows a log
C34_BackFromShownRun ==
    /\ ~panicked /\ ~m.confirming
    /\ m.viewMode = logsView /\ m.focusedPanel = leftPanel
    /\ m.selectedIndex = 0
    /\ m.logList # <<>>

\* run names in descending order
NewestFirst(s) == \A i \in 1..(Len(s) - 1) : ~RunLess(s[i], s[i + 1])

\* C35: the run list is sorted newest first, descending by run name, from
\* the list given at startup on, and a RunsLoadedMsg changes neither the
\* view mode nor the current run.
C35_RunListNewestFirst ==
    /\ NewestFirst(m.runList)
    /\ \A c \in Running("loadRuns", "done") :
         LET r == Update(m, [type |-> "RunsLoadedMsg",
                             Runs |-> SortReverse(ReadDir(c.set))], mints + 1)
         IN  /\ r.m.viewMode = m.viewMode
             /\ r.m.currentRunPath = m.currentRunPath
             /\ r.m.currentRunName = m.currentRunName
             /\ NewestFirst(r.m.runList)

\* C36: a log archived by the live path and then loaded with its run comes
\* back under the same display name, mapped to the same archived path and
\* to the same parsed report as the LogfileArchivedMsg of the live path
\* gave it; every listed name is the base name of its path without the
\* suffix.
C36_LoadReproducesLive ==
    /\ \A name \in DOMAIN m.logFullPaths :
         name = DisplayName(m.logFullPaths[name])
    /\ \A p \in archived :
         LET shown == clearCurrentRun([m EXCEPT !.viewMode = logsView,
                                               !.currentRunPath = Dir(p)])
             live == OnLogfileArchived(shown,
                        [type |-> "LogfileArchivedMsg", FullPath |-> p,
                         Log |-> ParseLog(TempJSONPath(StemOf(p)))]).m
             load == OnAllLogsParsed(OnSingleLogParsed(shown,
                        [type |-> "SingleLogParsedMsg", FullPath |-> p,
                         Log |-> ParseLog(p)]).m).m
         IN  /\ DisplayName(p) \in DOMAIN live.logFullPaths
             /\ live.logFullPaths[DisplayName(p)] = p
             /\ load.logFullPaths = live.logFullPaths
             /\ load.logList = live.logList
             /\ load.logs = live.logs

\* a run was loaded and shows a log that the live path had archived
C36_ArchivedLogLoaded ==
    /\ m.viewMode = logsView
    /\ m.status = <<"Loaded logs from run.", 1>>
    /\ \E p \in archived :
         /\ Dir(p) = m.currentRunPath
         /\ DisplayName(p) \in DOMAIN m.logFullPaths
         /\ m.logFullPaths[DisplayName(p)] = p

\* C37: every name in logList has an entry in logFullPaths whose path lies
\* directly inside currentRunPath, and logList is empty in the run list
\* view: the messages of a load of a run that is no longer the shown one
\* add nothing to the shown list.
C37_ListBelongsToShownRun ==
    /\ m.viewMode = runsView => m.logList = <<>>
    /\ \A i \in 1..Len(m.logList) :
         /\ m.logList[i] \in DOMAIN m.logFullPaths
         /\ Dir(m.logFullPaths[m.logList[i]]) = m.currentRunPath

\* C38: the view is the run list exactly when currentRunPath is empty, and
\* currentRunPath changes only by enter in the list panel (a run or "New
\* Run" selected, or "../") and by a TempLogProcessedMsg that starts a new
\* run; no other message that can be received changes it.
C38_RunPathFollowsView ==
    /\ [](/\ m.viewMode = runsView <=> m.currentRunPath = NoPath
          /\ \A msg \in Inbox :
               (msg.type # "TempLogProcessedMsg" /\ msg # KeyMsg("enter"))
                 => Update(m, msg, mints + 1).m.currentRunPath = m.currentRunPath)
    /\ [][m'.currentRunPath # m.currentRunPath =>
            \/ /\ m.focusedPanel = leftPanel
               /\ m' = Update(m, KeyMsg("enter"), mints + 1).m
            \/ \E stem \in (1..lim.files) \ DOMAIN routed :
                 /\ isNewRun(m)
                 /\ m' = Update(m, TempLogProcessed(stem, TRUE), mints + 1).m]_vars

\* an arriving log has started a new run while the run list was shown
C38_RunStartedByLog ==
    /\ m.viewMode = logsView
    /\ m.status = <<"New run started.">>
    /\ m.currentRunPath \notin dirs

\* what a confirmation that is pending asks for
Pending(mm) == <<mm.confirmationType, mm.itemToDelete, mm.updateURL>>

\* C39: a confirmation becomes pending only by a delete request or an
\* update notice and then holds what that one asked for; while it is
\* pending its type, item and URL change only by y or n, no other message
\* that can arrive (an UpdateAvailableMsg or ctrl+d among them) changes the
\* model at all, and y issues the command of the pending type on the
\* pending item, which for a log deletion is still in logList.
C39_PendingPromptKept ==
    /\ [](m.confirming =>
            /\ \A msg \in Inbox \cup {[type |-> "UpdateAvailableMsg",
                                         URL |-> "https://release"]} :
                 msg \notin {KeyMsg("y"), KeyMsg("n")}
                   => Update(m, msg, mints + 1) = Ret(m, <<>>)
            /\ LET r == Update(m, KeyMsg("y"), mints + 1)
               IN  CASE m.confirmationType = confirmDeleteRun ->
                          r.cmd = <<deleteRun(m.itemToDelete)>>
                     [] m.confirmationType = confirmDeleteLog ->
                          /\ \E i \in 1..Len(m.logList) : m.logList[i] = m.itemToDelete
                          /\ r.cmd = <<deleteLogFiles(MapGet(m.logFullPaths,
                                                            m.itemToDelete, NoPath))>>
                          /\ Len(r.m.logList) = Len(m.logList) - 1
                     [] OTHER ->
                          /\ m.updateURL # NoURL
                          /\ r.cmd = <<openFile(<<m.updateURL>>)>>)
    /\ [][/\ m.confirming =>
              \/ Pending(m') = Pending(m) /\ m'.confirming
              \/ m' = Update(m, KeyMsg("y"), mints + 1).m
              \/ m' = Update(m, KeyMsg("n"), mints + 1).m
          /\ (~m.confirming /\ m'.confirming) =>
              \/ m' = Update(m, KeyMsg("ctrl+d"), mints + 1).m
              \/ m' = Update(m, [type |-> "UpdateAvailableMsg",
                                  URL |-> "https://release"], mints + 1).m]_vars

\* a log deletion is pending after the updater has sent its notice
C39_DeletionPendingPastNotice ==
    /\ m.confirming /\ m.confirmationType = confirmDeleteLog
    /\ updSent
    /\ m.updateURL = NoURL

\* C32: when the enumeration of the watched root fails, the watcher
\* goroutine never runs its event loop and never starts Start again, no
\* poller exists and no path is received from the channel, the event loop
\* has been handed no watcher error before the report and exactly one after
\* it, and after the report Update handles every key as it would without
\* the stored error.
C32_FailedStartReportedOnce ==
    call.walk = "failed" =>
        /\ call.watcher \in {"failed", "ended"}
        /\ \A f \in 1..PipeLogs : call.poller[f] = "none"
        /\ call.emitted = <<>>
        /\ Cardinality({i \in 1..Len(call.delivered) :
                          call.delivered[i] = <<"watcher error">>})
             = IF call.watcher = "ended" THEN 1 ELSE 0
        /\ call.watcher = "ended" =>
              \A k \in Keys :
                  LET r == Update(m, KeyMsg(k), mints + 1)
                      r0 == Update([m EXCEPT !.err = NoErr], KeyMsg(k), mints + 1)
                  IN  /\ r.cmd = r0.cmd
                      /\ r.panic = r0.panic
                      /\ r.m = [r0.m EXCEPT !.err = m.err]

\* the failure was reported and a key pressed after it opened a new run
C32_KeyHandledAfterFailure ==
    /\ call.pc = "pipe" /\ call.watcher = "ended"
    /\ call.delivered = <<<<"watcher error">>>>
    /\ m.err = "WatcherFailed"
    /\ m.viewMode = logsView

Prefix(s, t) == Len(s) <= Len(t) /\ SubSeq(t, 1, Len(s)) = s

\* the logs whose result the event loop has taken, in the order it took them
ResultsDelivered ==
    LET IsResult(d) == d[1] = "result"
        res == SelectSeq(call.delivered, IsResult)
    IN  [i \in 1..Len(res) |-> res[i][2]]

\* C31: the logs are converted in the order in which their paths were
\* received from the pollers and at most one received path is not converted
\* yet; the results reach Update in the order of the conversions and at most
\* one conversion has not been reported yet; every log was routed by the
\* Update call of its own result, and a log whose report was archived went
\* to the run that the earlier archived logs left as the current run.
C31_ConvertedAndDeliveredInOrder ==
    /\ Prefix(call.converted, call.emitted)
    /\ Len(call.emitted) <= Len(call.converted) + 1
    /\ Prefix(ResultsDelivered, call.converted)
    /\ Len(call.converted) <= Len(ResultsDelivered) + 1
    /\ DOMAIN routed \subseteq {ResultsDelivered[i] : i \in 1..Len(ResultsDelivered)}
    /\ \A i, j \in 1..Len(ResultsDelivered) :
          LET f == ResultsDelivered[i]
              g == ResultsDelivered[j]
          IN  (i < j /\ f \in DOMAIN routed /\ g \in DOMAIN routed
                 /\ routed[f] # NoPath /\ routed[g] # NoPath)
                => routed[g] = routed[f]

\* the pollers sent the logs in another order than they were created in
\* and the three results were taken in that order, two into the same run
C31_LaterLogFirst ==
    /\ call.pc = "pipe"
    /\ call.emitted = <<3, 1, 2>>
    /\ ResultsDelivered = <<3, 1, 2>>
    /\ 3 \in DOMAIN routed /\ 2 \in DOMAIN routed
    /\ routed[3] # NoPath /\ routed[2] = routed[3]

\* C40: a path is among the received ones exactly once when its poller has
\* ended and not at all before, and no path is converted twice; a poller
\* that has opened its log stays at its send until the processor goroutine
\* receives the path; and every poller that is at its send has its path
\* received and converted, whatever the processor goroutine is busy with
\* and however many other pollers are sending.
C40_EmittedPathConvertedOnce ==
    /\ [](\A f \in 1..PipeLogs :
            /\ Count(call.emitted, f) = IF call.poller[f] = "done" THEN 1 ELSE 0
            /\ Count(call.converted, f) <= 1)
    /\ [][\A f \in 1..PipeLogs :
             call.poller[f] = "sending" =>
                \/ call'.poller[f] = "sending"
                \/ /\ call'.poller[f] = "done"
                   /\ call'.emitted = Append(call.emitted, f)
                   /\ call.conv.pc = "recv"]_vars
    /\ \A f \in 1..PipeLogs :
          (call.poller[f] = "sending") ~> (Count(call.converted, f) = 1)

\* two pollers are blocked at their send while a third log is converted
C40_TwoSendersWaitForConverter ==
    /\ call.pc = "pipe"
    /\ call.conv.pc = "process" /\ call.conv.path = 2
    /\ call.poller[1] = "sending" /\ call.poller[3] = "sending"

====
